---- MODULE Spec2Model ----
(***************************************************************************)
(* The keyed reduction operator of differential dataflow (reduce_trace and *)
(* HistoryReplayer::compute, operators/reduce.rs) as a state machine: the  *)
(* upstream arrangement produces batches and progress, and every           *)
(* activation of the operator ingests the batches, merges the keys, plays  *)
(* each key's history forward, ships the output batches and recomputes     *)
(* its capabilities.                                                       *)
(***************************************************************************)
EXTENDS Integers, Sequences, FiniteSets, TLC

\* ------------------------------------------------------------------------
\* Bounds of the model.
\* ------------------------------------------------------------------------
MaxT == 1
MaxUpdates == 2
MaxHistory == 4
MaxDiff == 1
NumKeys == 2
NumVals == 2
\* The largest number of copies one update of a thresholded collection adds
\* or removes.
MaxCopies == 3
\* The largest time of the totally ordered timestamps.
MaxTotal == 2
\* The largest number of update triples given to the two collections.
MaxGiven == 3

Keys == 1 .. NumKeys
Diffs == (-MaxDiff .. MaxDiff) \ {0}
Ops == {"distinct", "count", "min"}
\* The reductions over a totally ordered time.
TotalOps == {"distinct_total", "threshold_total"}
None == <<>>

\* ------------------------------------------------------------------------
\* Lattice time: pairs under the product partial order, with the derived
\* (lexicographic) total order Ord used for sorting and for `min`.
\* ------------------------------------------------------------------------
Times == (0 .. MaxT) \X (0 .. MaxT)
Minimum == <<0, 0>>

LessEq(s, t) == s[1] <= t[1] /\ s[2] <= t[2]
LessThan(s, t) == LessEq(s, t) /\ s # t
Max2(a, b) == IF a >= b THEN a ELSE b
Min2(a, b) == IF a <= b THEN a ELSE b
Join(s, t) == <<Max2(s[1], t[1]), Max2(s[2], t[2])>>
Meet(s, t) == <<Min2(s[1], t[1]), Min2(s[2], t[2])>>
TimeLt(s, t) == s[1] < t[1] \/ (s[1] = t[1] /\ s[2] < t[2])

\* Antichain predicates and insertion (frontiers held as sets).
FrontierLessEq(F, t) == \E e \in F : LessEq(e, t)
FrontierLessThan(F, t) == \E e \in F : LessThan(e, t)
\* Some element of the frontier lies strictly beyond the time.
FrontierLessThanTime(F, t) == \E e \in F : LessThan(t, e)
AntichainInsert(F, t) ==
  IF \E e \in F : LessEq(e, t) THEN F
  ELSE {e \in F : ~LessEq(t, e)} \cup {t}
IsAntichain(F) == \A s \in F, t \in F : s # t => ~LessEq(s, t)
Frontiers == {F \in SUBSET Times : IsAntichain(F)}
\* The partial order on frontiers.
AntichainLE(F1, F2) == \A t2 \in F2 : \E t1 \in F1 : LessEq(t1, t2)

\* Antichain insertion into an ordered element list (Antichain::insert).
SeqInsert(s, t) ==
  IF \E i \in DOMAIN s : LessEq(s[i], t) THEN s
  ELSE Append(SelectSeq(s, LAMBDA x : ~LessEq(t, x)), t)

\* update_meet: an optional meet updated by an optional time.
UpdateMeet(m, other) ==
  IF other = None THEN m
  ELSE IF m = None THEN other ELSE Meet(m, other)

RECURSIVE MeetAll(_, _)
MeetAll(m, s) == IF s = <<>> THEN m ELSE MeetAll(UpdateMeet(m, Head(s)), Tail(s))

\* ------------------------------------------------------------------------
\* Sorting, deduplication and consolidation.
\* ------------------------------------------------------------------------
RECURSIVE Dedup(_)
Dedup(s) ==
  IF Len(s) <= 1 THEN s
  ELSE IF s[1] = s[2] THEN Dedup(Tail(s))
  ELSE <<s[1]>> \o Dedup(Tail(s))

KeyTimeLt(x, y) == x[1] < y[1] \/ (x[1] = y[1] /\ TimeLt(x[2], y[2]))

\* sort_dedup: dedup, sort, dedup.
SortDedupTimes(list) == Dedup(SortSeq(Dedup(list), TimeLt))
SortDedupPairs(list) == Dedup(SortSeq(Dedup(list), KeyTimeLt))

\* Entries ((val, time), diff) are records [val, time, diff]; entries
\* (val, diff) are records [val, diff].
ValTimeLt(x, y) == x.val < y.val \/ (x.val = y.val /\ TimeLt(x.time, y.time))
ValLt(x, y) == x.val < y.val
TimeValLt(x, y) == TimeLt(x.time, y.time) \/ (x.time = y.time /\ x.val < y.val)

RECURSIVE MergeVT(_)
MergeVT(s) ==
  IF s = <<>> THEN <<>>
  ELSE IF Len(s) >= 2 /\ s[1].val = s[2].val /\ s[1].time = s[2].time
       THEN MergeVT(<<[s[2] EXCEPT !.diff = s[1].diff + s[2].diff]>> \o Tail(Tail(s)))
  ELSE IF s[1].diff = 0 THEN MergeVT(Tail(s))
  ELSE <<s[1]>> \o MergeVT(Tail(s))

RECURSIVE MergeV(_)
MergeV(s) ==
  IF s = <<>> THEN <<>>
  ELSE IF Len(s) >= 2 /\ s[1].val = s[2].val
       THEN MergeV(<<[s[2] EXCEPT !.diff = s[1].diff + s[2].diff]>> \o Tail(Tail(s)))
  ELSE IF s[1].diff = 0 THEN MergeV(Tail(s))
  ELSE <<s[1]>> \o MergeV(Tail(s))

\* consolidate: sort by data, sum the diffs of equal data, drop zeros.
ConsolidateVT(s) == MergeVT(SortSeq(s, ValTimeLt))
ConsolidateV(s) == MergeV(SortSeq(s, ValLt))

RECURSIVE SetToSeq(_)
SetToSeq(S) ==
  IF S = {} THEN <<>>
  ELSE LET x == CHOOSE y \in S : TRUE IN <<x>> \o SetToSeq(S \ {x})

RECURSIVE SumDiffs(_)
SumDiffs(s) == IF s = <<>> THEN 0 ELSE Head(s).diff + SumDiffs(Tail(s))

RECURSIVE Concat(_)
Concat(ss) == IF ss = <<>> THEN <<>> ELSE Head(ss) \o Concat(Tail(ss))

\* ------------------------------------------------------------------------
\* User logic.  Values of the keyed collections of distinct and count are
\* the unit value.
\* ------------------------------------------------------------------------
Unit == 0
\* distinct over the taller lattice, of one key or of every key.
TallOps == {"distinct_tall", "distinct_keys"}
InputVals(o) == IF o = "min" THEN 1 .. NumVals ELSE {Unit}
\* The keys of the input: count is explored over every key, the other
\* reductions over the first.
InputKeys(o) == IF o \in {"count", "distinct_keys"} \/ o \in TotalOps THEN Keys ELSE {1}
\* The number of input updates explored: distinct, over one key and one
\* value, is explored over the longer histories.
InputBudget(o) ==
  IF o \in {"distinct", "distinct_total", "distinct_keys"} THEN MaxHistory
  ELSE IF o \in TallOps THEN MaxUpdates + 1
  ELSE MaxUpdates
\* The diffs of the input's updates: a thresholded collection holds several
\* copies of a record, added together and removed one by one.
InputDiffs(o) ==
  IF o \in {"threshold", "threshold_total"} THEN (-MaxDiff .. MaxCopies) \ {0}
  ELSE IF o \in TallOps THEN 1 .. MaxDiff
  ELSE Diffs
\* The timestamps of the input: the product lattice, or a total order (a
\* chain, written as the pairs <<i, 0>>).
TotalTimes == {<<i, 0>> : i \in 0 .. MaxTotal}
\* The product lattice with one more time, a further step along its first
\* coordinate, over which a time can be pending through several rounds.
TallTimes == Times \cup {<<MaxT + 1, 0>>}
InputTimes(o) ==
  IF o \in TotalOps THEN TotalTimes ELSE IF o \in TallOps THEN TallTimes ELSE Times
\* The frontiers of an input that advances in two steps: to the top of the
\* product lattice, and to the end (over every key, in three: first to the
\* top and the further time of the taller lattice).
StepFrontiers == {{<<MaxT, MaxT>>}, {}}
InputFrontiers(o) ==
  IF o \in TotalOps THEN {{}} \cup {{t} : t \in TotalTimes}
  ELSE IF o = "distinct_short" THEN StepFrontiers
  ELSE IF o = "distinct_keys" THEN StepFrontiers \cup {{<<MaxT, MaxT>>, <<MaxT + 1, 0>>}}
  ELSE IF o = "distinct_tall" THEN {F \in SUBSET TallTimes : IsAntichain(F)}
  ELSE Frontiers

\* The closures handed to reduce_abelian: they populate the new output from
\* a non-empty input slice.
\* distinct: the unit value once, whatever the key's count.
DistinctLogicCounted(k, input) == <<[val |-> Unit, diff |-> input[1].diff]>>
DistinctLogic(k, input) == <<[val |-> Unit, diff |-> 1]>>

\* count: the key's count once.
CountLogicOfLength(k, input) == <<[val |-> Len(input), diff |-> 1]>>
CountLogic(k, input) == <<[val |-> input[1].diff, diff |-> 1]>>

\* The smallest value of the group, once.
MinLogic(k, input) == <<[val |-> input[1].val, diff |-> 1]>>

\* The remainder of isize: it takes the sign of the dividend.
RustRem(a, b) == IF a >= 0 THEN a % b ELSE -((-a) % b)

\* threshold: the unit value, thresh(key, count) times; thresh is the
\* documented |_, c| c % 2.
Thresh(k, c) == RustRem(c, 2)
ThresholdLogicIdentity(k, input) == <<[val |-> Unit, diff |-> input[1].diff]>>
ThresholdLogic(k, input) == <<[val |-> Unit, diff |-> Thresh(k, input[1].diff)]>>

UserLogic(o, k, input) ==
  CASE o \in {"distinct", "distinct_short"} \/ o \in TallOps -> DistinctLogic(k, input)
    [] o = "count" -> CountLogic(k, input)
    [] o = "min" -> MinLogic(k, input)
    [] o = "threshold" -> ThresholdLogic(k, input)

Negated(s) == [i \in DOMAIN s |-> [s[i] EXCEPT !.diff = -s[i].diff]]

\* The closure reduce_abelian hands to reduce_core: the user logic appends
\* to `change`, the previous output is negated into it, and it is
\* consolidated.
UserInvoked(input) == input # <<>>
ReduceAbelianWithoutRetraction(o, k, input, output, change) ==
  ConsolidateV(IF UserInvoked(input) THEN change \o UserLogic(o, k, input) ELSE change)
ReduceAbelian(o, k, input, output, change) ==
  ConsolidateV((IF UserInvoked(input) THEN change \o UserLogic(o, k, input) ELSE change)
               \o Negated(output))

\* compute applies the logic when the input or the previous output is
\* non-empty.
LogicAppliesAlways(input, output) == TRUE
LogicApplies(input, output) == input # <<>> \/ output # <<>>

\* ------------------------------------------------------------------------
\* ValueHistory: the updates of one key, consolidated per value after the
\* load-time mapping of times, replayed in time order.
\* ------------------------------------------------------------------------
AdvanceTimeToMeet(t, m) == IF m = None THEN t ELSE m
AdvanceTime(t, m) == IF m = None THEN t ELSE Join(t, m)

ReplayKey(upds, k, m) ==
  LET mine == SelectSeq(upds, LAMBDA u : u.key = k)
      mapped == [i \in DOMAIN mine |->
                   [val |-> mine[i].val, time |-> AdvanceTime(mine[i].time, m),
                    diff |-> mine[i].diff]]
  IN [hist |-> SortSeq(ConsolidateVT(mapped), TimeValLt), buf |-> <<>>]

ReplayTime(r) == IF r.hist = <<>> THEN None ELSE Head(r.hist).time
ReplayMeet(r) == MeetAll(None, [i \in DOMAIN r.hist |-> r.hist[i].time])

RECURSIVE StepWhileTimeIs(_, _)
StepWhileTimeIs(r, t) ==
  IF r.hist # <<>> /\ Head(r.hist).time = t
  THEN StepWhileTimeIs([hist |-> Tail(r.hist), buf |-> Append(r.buf, Head(r.hist))], t)
  ELSE r

AdvanceBufferBy(r, m) ==
  [r EXCEPT !.buf = ConsolidateVT([i \in DOMAIN r.buf |->
                                     [r.buf[i] EXCEPT !.time = Join(r.buf[i].time, m)]])]

\* ------------------------------------------------------------------------
\* State.
\* ------------------------------------------------------------------------
VARIABLES
  op,             \* the reduction the operator was built with
  coll_x, coll_y, \* two collections: the update triples given so far
  coll_out,       \* the collection method last applied to them, with its result
  wr_storage,     \* the updates of the wrapped trace or batch
  wr_cursor,      \* a cursor of the wrapped type, called directly
  wrapper,        \* the wrapper, holding its own wrapped cursor
  wr_seen,        \* what the last call on the wrapper and on wr_cursor showed
  src_done,       \* the input trace below its physical compaction frontier, merged
  src_batches,    \* the input trace's chain of batches beyond that frontier
  inbox,          \* (capability, batch) messages sent and not yet drained
  upper_limit, lower_limit,
  interesting,    \* Vec<(K, T)>
  capabilities,   \* Vec<Capability<T>>, by their times
  out_done,       \* the output trace, merged
  out_upper,      \* the upper bound of the output trace's writer
  out_inserted,   \* the batches the latest round handed to the writer
  out_stream,     \* the (capability, batch) pairs the latest shipping round sent
  stream_upper,   \* <<the upper bound of the last batch sent before that round>>, if any
  output_upper, output_lower,
  src_logical, src_physical, out_logical, out_physical,
  pc,             \* position of the activation
  panic,          \* the failed expectation or assertion, if any
  exposed, exposed_position, batch_upds, batch_keys,
  buffers, builders,
  key, times, times_pos, meets, meet,
  batch_replay, input_replay, output_replay,
  synth_times, times_current, output_produced, update_buffer,
  new_interesting,
  eval            \* what the last iteration of compute's loop did

wrapVars == <<wr_storage, wr_cursor, wrapper, wr_seen>>
collVars == <<coll_x, coll_y, coll_out, wrapVars>>
envVars == <<op, collVars, src_done, src_batches, inbox>>
opVars == <<upper_limit, lower_limit, interesting, capabilities, out_done,
            out_upper, out_inserted, out_stream, stream_upper, output_upper, output_lower, src_logical, src_physical, out_logical, out_physical>>
roundVars == <<exposed, exposed_position, batch_upds, batch_keys, buffers, builders>>
keyVars == <<key, times, times_pos, meets, meet, batch_replay, input_replay,
             output_replay, synth_times, times_current, output_produced,
             update_buffer, new_interesting, eval>>
vars == <<envVars, opVars, pc, panic, roundVars, keyVars>>

EmptyReplay == [hist |-> <<>>, buf |-> <<>>]
NoEval == [step |-> "none"]
NoOut == [method |-> "none"]
NoWrapper == [kind |-> "none"]
NoCall == [call |-> "none"]
Rewound == [key_pos |-> 1, val_pos |-> 1]

InitFor(ops) ==
  /\ op \in ops
  /\ coll_x = <<>> /\ coll_y = <<>> /\ coll_out = NoOut
  /\ wr_storage = {} /\ wr_cursor = Rewound /\ wrapper = NoWrapper /\ wr_seen = NoCall
  /\ src_done = <<>>
  /\ src_batches = <<>>
  /\ inbox = <<>>
  /\ upper_limit = {Minimum}
  /\ lower_limit = {Minimum}
  /\ interesting = <<>>
  /\ capabilities = <<>>
  /\ out_done = <<>>
  /\ out_upper = {Minimum}
  /\ out_inserted = <<>>
  /\ out_stream = <<>>
  /\ stream_upper = <<>>
  /\ output_upper = {Minimum} /\ output_lower = {Minimum}
  /\ src_logical = {Minimum} /\ src_physical = {Minimum}
  /\ out_logical = {Minimum} /\ out_physical = {Minimum}
  /\ pc = "idle"
  /\ panic = "none"
  /\ exposed = <<>> /\ exposed_position = 1
  /\ batch_upds = <<>> /\ batch_keys = <<>>
  /\ buffers = <<>> /\ builders = <<>>
  /\ key = 0 /\ times = <<>> /\ times_pos = 1 /\ meets = <<>> /\ meet = None
  /\ batch_replay = EmptyReplay /\ input_replay = EmptyReplay
  /\ output_replay = EmptyReplay
  /\ synth_times = <<>> /\ times_current = <<>> /\ output_produced = <<>>
  /\ update_buffer = <<>> /\ new_interesting = <<>>
  /\ eval = NoEval

Init == InitFor(Ops)

\* ------------------------------------------------------------------------
\* The upstream arrangement: it appends a batch to its trace and sends it
\* under a capability, or seals its trace over an empty interval.
\* ------------------------------------------------------------------------
SourceUpper == IF src_batches = <<>> THEN src_physical ELSE src_batches[Len(src_batches)].upper

RECURSIVE CountUpdates(_)
CountUpdates(bs) == IF bs = <<>> THEN 0 ELSE Len(Head(bs).upds) + CountUpdates(Tail(bs))

UpdLt(x, y) ==
  \/ x.key < y.key
  \/ x.key = y.key /\ x.val < y.val
  \/ x.key = y.key /\ x.val = y.val /\ TimeLt(x.time, y.time)

\* The (key, value, time) a batch sent under capability c with upper bound U
\* may hold an update for.
BatchSlots(c, U) ==
  {sl \in [key : InputKeys(op), val : InputVals(op), time : InputTimes(op)] :
     LessEq(c, sl.time) /\ ~FrontierLessEq(U, sl.time)}

\* The contents of such a batch of at most n updates: consolidated, one
\* update for each (key, value, time) it holds.
BatchContents(c, U, n) ==
  UNION {{{[key |-> sl.key, val |-> sl.val, time |-> sl.time, diff |-> f[sl]] : sl \in ss} :
            f \in [ss -> InputDiffs(op)]} :
           ss \in {x \in SUBSET BatchSlots(c, U) : Cardinality(x) <= n}}

ArrangeSend ==
  /\ pc = "idle"
  /\ \E c \in InputTimes(op), U \in InputFrontiers(op) :
       /\ FrontierLessEq(SourceUpper, c)
       /\ ~FrontierLessEq(U, c)
       /\ AntichainLE(SourceUpper, U)
       /\ \E content \in BatchContents(c, U, InputBudget(op) - Len(src_done)
                                                - CountUpdates(src_batches)) :
            LET batch == [lower |-> SourceUpper, upper |-> U,
                          upds |-> SortSeq(SetToSeq(content), UpdLt)]
            IN /\ src_batches' = Append(src_batches, batch)
               /\ inbox' = Append(inbox, [cap |-> c, batch |-> batch])
  /\ UNCHANGED <<op, collVars, src_done, opVars, pc, panic, roundVars, keyVars>>

ArrangeSeal ==
  /\ pc = "idle"
  /\ \E U \in InputFrontiers(op) :
       /\ AntichainLE(SourceUpper, U)
       /\ U # SourceUpper
       /\ src_batches' = Append(src_batches,
                                [lower |-> SourceUpper, upper |-> U, upds |-> <<>>])
  /\ UNCHANGED <<op, collVars, src_done, inbox, opVars, pc, panic, roundVars, keyVars>>

\* ------------------------------------------------------------------------
\* An activation of the operator: ingestion.
\* ------------------------------------------------------------------------
\* Each batch moves upper_limit to its upper bound.
RECURSIVE IngestUpper(_, _)
IngestUpper(ul, msgs) ==
  IF msgs = <<>> THEN ul ELSE IngestUpper(Head(msgs).batch.upper, Tail(msgs))

\* `capabilities` is made to cover the capability of each message.
CoverCapabilityAppending(caps, c) ==
  IF \E i \in DOMAIN caps : caps[i] = c THEN caps ELSE Append(caps, c)
CoverCapabilityReplacing(caps, c) == <<c>>
CoverCapability(caps, c) ==
  LET kept == SelectSeq(caps, LAMBDA x : ~LessThan(c, x))
  IN IF \E i \in DOMAIN kept : LessEq(kept[i], c) THEN kept ELSE Append(kept, c)

IngestCapsLast(caps, msgs) ==
  IF msgs = <<>> THEN caps ELSE CoverCapability(caps, msgs[Len(msgs)].cap)
RECURSIVE IngestCaps(_, _)
IngestCaps(caps, msgs) ==
  IF msgs = <<>> THEN caps
  ELSE IngestCaps(CoverCapability(caps, Head(msgs).cap), Tail(msgs))

\* advance_upper: an empty batch of the trace whose lower bound equals
\* `upper` advances it to the batch's upper bound.
RECURSIVE AdvanceUpper(_, _)
AdvanceUpper(ul, bs) ==
  IF bs = <<>> THEN ul
  ELSE IF Head(bs).upds = <<>> /\ Head(bs).lower = ul
       THEN AdvanceUpper(Head(bs).upper, Tail(bs))
  ELSE AdvanceUpper(ul, Tail(bs))

IngestedUpper == AdvanceUpper(IngestUpper(upper_limit, inbox), src_batches)
IngestedCaps == IngestCaps(capabilities, inbox)

\* TraceWriter::seal: an empty batch closes the gap from the writer's upper
\* bound to `upper`.
SealBatch(from, upper) ==
  IF from # upper THEN <<[lower |-> from, upper |-> upper, upds |-> <<>>]>> ELSE <<>>

\* The round that holds no capability only seals the writer.
ProgressSealOmitted(from, upper) == <<>>
ProgressSeal(from, upper) == SealBatch(from, upper)

UpperAfter(from, bs) == IF bs = <<>> THEN from ELSE bs[Len(bs)].upper

\* set_physical_compaction(frontier): the batches that end at or before the
\* frontier are merged.
Compactable(bs, frontier) == SelectSeq(bs, LAMBDA b : AntichainLE(b.upper, frontier))
Merged(done, bs) ==
  SortSeq(done \o Concat([i \in DOMAIN bs |-> bs[i].upds]), UpdLt)

RECURSIVE KeysOf(_)
KeysOf(upds) == IF upds = <<>> THEN <<>> ELSE <<Head(upds).key>> \o KeysOf(Tail(upds))

\* batch_cursors: a cursor for the batch of each drained message, together
\* a cursor over the updates of them all.
BatchCursorsLast(msgs) == IF msgs = <<>> THEN <<>> ELSE msgs[Len(msgs)].batch.upds
BatchCursors(msgs) == Concat([i \in DOMAIN msgs |-> msgs[i].batch.upds])

\* The activation finds that upper_limit has not advanced.
ActivateNoAdvanceSealing ==
  /\ pc = "idle"
  /\ IngestedUpper = upper_limit
  /\ lower_limit' = upper_limit
  /\ upper_limit' = IngestedUpper
  /\ capabilities' = IngestedCaps
  /\ inbox' = <<>>
  /\ out_inserted' = ProgressSeal(out_upper, IngestedUpper)
  /\ out_upper' = UpperAfter(out_upper, out_inserted')
  /\ UNCHANGED <<op, collVars, src_done, src_batches, interesting, out_done,
                 out_stream, stream_upper,
                 output_upper, output_lower, src_logical, src_physical, out_logical, out_physical,
                 pc, panic, roundVars, keyVars>>
ActivateNoAdvance ==
  /\ pc = "idle"
  /\ IngestedUpper = upper_limit
  /\ lower_limit' = upper_limit
  /\ upper_limit' = IngestedUpper
  /\ capabilities' = IngestedCaps
  /\ inbox' = <<>>
  /\ UNCHANGED <<op, collVars, src_done, src_batches, interesting, out_done, out_upper,
                 out_inserted, out_stream, stream_upper,
                 output_upper, output_lower, src_logical, src_physical, out_logical, out_physical,
                 pc, panic, roundVars, keyVars>>

\* upper_limit advanced, and no held capability is short of it.
ActivateNoCapability ==
  /\ pc = "idle"
  /\ IngestedUpper # upper_limit
  /\ ~ \E i \in DOMAIN IngestedCaps : ~FrontierLessEq(IngestedUpper, IngestedCaps[i])
  /\ lower_limit' = upper_limit
  /\ upper_limit' = IngestedUpper
  /\ capabilities' = IngestedCaps
  /\ inbox' = <<>>
  /\ out_inserted' = ProgressSeal(out_upper, IngestedUpper)
  /\ out_upper' = UpperAfter(out_upper, out_inserted')
  /\ src_logical' = IngestedUpper /\ src_physical' = IngestedUpper
  /\ out_logical' = IngestedUpper /\ out_physical' = IngestedUpper
  /\ src_done' = Merged(src_done, Compactable(src_batches, IngestedUpper))
  /\ src_batches' = SelectSeq(src_batches, LAMBDA b : ~AntichainLE(b.upper, IngestedUpper))
  /\ UNCHANGED <<op, collVars, interesting, out_done, out_stream, stream_upper, output_upper,
                 output_lower, pc, panic, roundVars, keyVars>>

\* upper_limit advanced and a capability can produce output: `interesting`
\* is partitioned and the buffers, builders and cursors are prepared.
\* interesting.retain: the pairs in advance of the frontier are kept and the
\* others exposed, in order.
RetainBelow(pairs, U) ==
  [kept |-> SelectSeq(pairs, LAMBDA p : ~FrontierLessThanTime(U, p[2])),
   exposed |-> SelectSeq(pairs, LAMBDA p : FrontierLessThanTime(U, p[2]))]
RetainExposedKept(pairs, U) ==
  [kept |-> pairs,
   exposed |-> SelectSeq(pairs, LAMBDA p : ~FrontierLessEq(U, p[2]))]
Retain(pairs, U) ==
  [kept |-> SelectSeq(pairs, LAMBDA p : FrontierLessEq(U, p[2])),
   exposed |-> SelectSeq(pairs, LAMBDA p : ~FrontierLessEq(U, p[2]))]

ActivateProcess ==
  /\ pc = "idle"
  /\ IngestedUpper # upper_limit
  /\ \E i \in DOMAIN IngestedCaps : ~FrontierLessEq(IngestedUpper, IngestedCaps[i])
  /\ lower_limit' = upper_limit
  /\ upper_limit' = IngestedUpper
  /\ capabilities' = IngestedCaps
  /\ inbox' = <<>>
  /\ LET retained == Retain(SortDedupPairs(interesting), IngestedUpper)
     IN /\ interesting' = retained.kept
        /\ exposed' = retained.exposed
  /\ exposed_position' = 1
  /\ buffers' = [i \in DOMAIN IngestedCaps |-> [time |-> IngestedCaps[i], upds |-> <<>>]]
  /\ builders' = [i \in DOMAIN IngestedCaps |-> <<>>]
  /\ batch_upds' = BatchCursors(inbox)
  /\ batch_keys' = Dedup(SortSeq(KeysOf(batch_upds'), <))
  /\ pc' = "keys"
  /\ UNCHANGED <<op, collVars, src_done, src_batches, out_done, out_upper, out_inserted,
                 out_stream, stream_upper, output_upper,
                 output_lower, src_logical, src_physical, out_logical,
                 out_physical, panic, keyVars>>

\* cursor_through(frontier): the merged part of the trace and the updates
\* of the batches that end at or before the frontier.
Through(done, bs, frontier) ==
  done \o Concat([i \in DOMAIN Compactable(bs, frontier) |->
                    Compactable(bs, frontier)[i].upds])

\* ------------------------------------------------------------------------
\* The key merge: the next key, its exposed times, and the setup of compute.
\* ------------------------------------------------------------------------
MoreKeys == batch_keys # <<>> \/ exposed_position <= Len(exposed)

NextKeyFromBatch ==
  IF batch_keys # <<>> THEN Head(batch_keys) ELSE exposed[exposed_position][1]
NextKey ==
  IF exposed_position <= Len(exposed) /\ batch_keys # <<>>
  THEN Min2(exposed[exposed_position][1], Head(batch_keys))
  ELSE IF exposed_position <= Len(exposed) THEN exposed[exposed_position][1]
  ELSE Head(batch_keys)

\* The position after the run of exposed entries for key k.
RECURSIVE ExposedEnd(_, _)
ExposedEnd(pos, k) ==
  IF pos <= Len(exposed) /\ exposed[pos][1] = k THEN ExposedEnd(pos + 1, k) ELSE pos

\* meets[i] is the meet of times[i..].
RECURSIVE SuffixMeets(_)
SuffixMeets(ts) ==
  IF Len(ts) <= 1 THEN ts
  ELSE LET rest == SuffixMeets(Tail(ts)) IN <<Meet(Head(ts), Head(rest))>> \o rest

First(s) == IF s = <<>> THEN None ELSE Head(s)
Last(s) == IF s = <<>> THEN None ELSE s[Len(s)]

KeyStart ==
  /\ pc = "keys"
  /\ MoreKeys
  /\ LET k == NextKey
         stop == ExposedEnd(exposed_position, k)
         its == SortDedupTimes([i \in 1 .. (stop - exposed_position) |->
                                  exposed[exposed_position + i - 1][2]])
         ms == SuffixMeets(its)
         br == ReplayKey(batch_upds, k, None)
         m == UpdateMeet(UpdateMeet(None, First(ms)), ReplayMeet(br))
     IN /\ key' = k
        /\ exposed_position' = stop
        /\ times' = its
        /\ times_pos' = 1
        /\ meets' = ms
        /\ meet' = m
        /\ batch_replay' = br
        /\ input_replay' = ReplayKey(Through(src_done, src_batches, lower_limit), k, m)
        /\ output_replay' = ReplayKey(Through(out_done, <<>>, lower_limit), k, m)
  /\ synth_times' = <<>>
  /\ times_current' = <<>>
  /\ output_produced' = <<>>
  /\ eval' = NoEval
  /\ pc' = "compute"
  /\ UNCHANGED <<envVars, opVars, panic, exposed, batch_upds, batch_keys,
                 buffers, builders, update_buffer, new_interesting>>

\* ------------------------------------------------------------------------
\* HistoryReplayer::compute: one iteration of the main loop.
\* ------------------------------------------------------------------------
TimesSlice == SubSeq(times, times_pos, Len(times))
MeetsSlice == SubSeq(meets, times_pos, Len(meets))

Candidates ==
  {ReplayTime(batch_replay), First(TimesSlice), ReplayTime(input_replay),
   ReplayTime(output_replay), Last(synth_times)} \ {None}

MinTime(S) == CHOOSE t \in S : \A u \in S : t = u \/ TimeLt(t, u)

\* The number of trailing entries of s equal to t.
RECURSIVE TrailingEqual(_, _)
TrailingEqualKept(s, t) == 0
TrailingEqual(s, t) ==
  IF s # <<>> /\ s[Len(s)] = t THEN 1 + TrailingEqual(SubSeq(s, 1, Len(s) - 1), t) ELSE 0

LeadingEqualSkipped(s, t) == 0
RECURSIVE LeadingEqual(_, _)
LeadingEqual(s, t) ==
  IF s # <<>> /\ Head(s) = t THEN 1 + LeadingEqual(Tail(s), t) ELSE 0

Repeat(t, n) == [i \in 1 .. n |-> t]

\* The values and diffs of the entries at times less or equal to t.
Visible(buf, t) ==
  LET vis == SelectSeq(buf, LAMBDA e : LessEq(e.time, t))
  IN [i \in DOMAIN vis |-> [val |-> vis[i].val, diff |-> vis[i].diff]]

\* The accumulated input at t: the visible entries of the input history and
\* of the batch, consolidated.
InputBufferUnconsolidated(in_buf, batch_buf, t) == Visible(in_buf, t) \o Visible(batch_buf, t)
InputBuffer(in_buf, batch_buf, t) == ConsolidateV(Visible(in_buf, t) \o Visible(batch_buf, t))

\* The joins of t with the times of the other entries.
JoinsBeyondDropped(buf, t) == <<>>
JoinsBeyond(buf, t) ==
  LET inv == SelectSeq(buf, LAMBDA e : ~LessEq(e.time, t))
  IN [i \in DOMAIN inv |-> Join(t, inv[i].time)]

TimesBeyond(ts, t) ==
  LET inv == SelectSeq(ts, LAMBDA x : ~LessEq(x, t))
  IN [i \in DOMAIN inv |-> Join(inv[i], t)]

\* The position of the last output buffer whose capability time is less or
\* equal to t; 0 when there is none.
FindIndexFromBack(outputs, t) ==
  LET hits == {i \in DOMAIN outputs : LessEq(outputs[i].time, t)}
  IN IF hits = {} THEN 0
     ELSE Len(outputs) + 1 - (CHOOSE i \in hits : \A j \in hits : j <= i)
FindIndex(outputs, t) ==
  LET hits == {i \in DOMAIN outputs : LessEq(outputs[i].time, t)}
  IN IF hits = {} THEN 0 ELSE CHOOSE i \in hits : \A j \in hits : j <= i

TimeGt(s, t) == TimeLt(t, s)

\* A time is interesting when it carries a batch update, a synthetic time
\* or a flagged time, or when such a time seen before is less than or equal
\* to it.
IsInterestingWithoutBatch(found, popped, taken, batch_buf, current, t) ==
  \/ found \/ popped > 0 \/ taken > 0
  \/ \E i \in DOMAIN current : LessEq(current[i], t)
IsInterestingAtOwnTime(found, popped, taken, batch_buf, current, t) ==
  found \/ popped > 0 \/ taken > 0
IsInteresting(found, popped, taken, batch_buf, current, t) ==
  \/ found \/ popped > 0 \/ taken > 0
  \/ \E i \in DOMAIN batch_buf : LessEq(batch_buf[i].time, t)
  \/ \E i \in DOMAIN current : LessEq(current[i], t)

\* A time is acted on in this round unless it is in advance of upper_limit.
InLimitAlways(U, t) == TRUE
InLimit(U, t) == ~FrontierLessEq(U, t)

ComputeStep ==
  /\ pc = "compute"
  /\ Candidates # {}
  \* Each value is bound once, in the order the code computes it.
  /\ \E next_time \in {MinTime(Candidates)} :
     \* advance the input, output and batch replayers
     \E ir1 \in {StepWhileTimeIs(input_replay, next_time)} :
     \E or1 \in {StepWhileTimeIs(output_replay, next_time)} :
     \E found \in {ReplayTime(batch_replay) = next_time} :
     \E br0 \in {StepWhileTimeIs(batch_replay, next_time)} :
     \E br1 \in {IF found /\ meet # None THEN AdvanceBufferBy(br0, meet) ELSE br0} :
     \* advance synth_times and times_slice
     \E popped \in {TrailingEqual(synth_times, next_time)} :
     \E st1 \in {SubSeq(synth_times, 1, Len(synth_times) - popped)} :
     \E taken \in {LeadingEqual(TimesSlice, next_time)} :
     \E pos1 \in {times_pos + taken} :
     \E tc1 \in {times_current \o Repeat(next_time, popped) \o Repeat(next_time, taken)} :
     \E is_interesting \in {IsInteresting(found, popped, taken, br1.buf, tc1, next_time)} :
     \E in_limit \in {InLimit(upper_limit, next_time)} :
     \E evaluated \in {in_limit /\ is_interesting} :
     \* assemble the input and the previous output at next_time
     \E ir2 \in {IF evaluated /\ meet # None THEN AdvanceBufferBy(ir1, meet) ELSE ir1} :
     \E or2 \in {IF evaluated /\ meet # None THEN AdvanceBufferBy(or1, meet) ELSE or1} :
     \E input_buffer \in {InputBuffer(ir2.buf, br1.buf, next_time)} :
     \E output_buffer \in {ConsolidateV(Visible(or2.buf, next_time)
                                       \o Visible(output_produced, next_time))} :
     \E called \in {evaluated /\ LogicApplies(input_buffer, output_buffer)} :
     \E ub1 \in {IF called
                THEN ReduceAbelian(op, key, input_buffer, output_buffer, update_buffer)
                ELSE update_buffer} :
     \E delta \in {IF evaluated THEN ConsolidateV(ub1) ELSE ub1} :
     \E emits \in {evaluated /\ delta # <<>>} :
     \E idx \in {FindIndex(buffers, next_time)} :
     \E produced \in {[i \in DOMAIN delta |->
                        [val |-> delta[i].val, time |-> next_time, diff |-> delta[i].diff]]} :
     \E stashed \in {output_produced \o produced} :
     \E op1 \in {IF emits
                THEN ConsolidateVT([i \in DOMAIN stashed |->
                       [stashed[i] EXCEPT !.time = AdvanceTime(stashed[i].time, meet)]])
                ELSE output_produced} :
     \* synthetic interesting times
     \E temp \in {(IF evaluated
                  THEN JoinsBeyond(ir2.buf, next_time) \o JoinsBeyond(br1.buf, next_time)
                       \o JoinsBeyond(or2.buf, next_time)
                       \o JoinsBeyond(output_produced, next_time)
                  ELSE <<>>)
                 \o JoinsBeyond(br1.buf, next_time) \o TimesBeyond(tc1, next_time)} :
     \E temporary \in {IF in_limit THEN SortDedupTimes(temp) ELSE <<>>} :
     \E deferred \in {SelectSeq(temporary, LAMBDA t : FrontierLessEq(upper_limit, t))} :
     \E synth_new \in {SelectSeq(temporary, LAMBDA t : ~FrontierLessEq(upper_limit, t))} :
     \E st2 \in {IF synth_new # <<>> THEN Dedup(SortSeq(st1 \o synth_new, TimeGt)) ELSE st1} :
     \E pushed \in {IF in_limit THEN deferred
                   ELSE IF is_interesting THEN <<next_time>> ELSE <<>>} :
     \* the meet of each remaining source of times
     \E m1 \in {UpdateMeet(
                 MeetAll(UpdateMeet(UpdateMeet(UpdateMeet(None, ReplayMeet(br1)),
                                               ReplayMeet(ir2)), ReplayMeet(or2)), st2),
                 First(SubSeq(meets, pos1, Len(meets))))} :
     \E tc2 \in {SortDedupTimes([i \in DOMAIN tc1 |-> AdvanceTime(tc1[i], m1)])} :
     \E report \in {[step |-> "iter", key |-> key, time |-> next_time,
                    interesting |-> is_interesting, evaluated |-> evaluated,
                    called |-> called, user |-> called /\ UserInvoked(input_buffer),
                    input |-> input_buffer, output |-> output_buffer,
                    change |-> update_buffer, delta |-> delta, emits |-> emits,
                    idx |-> idx, pushed |-> pushed, meet |-> meet,
                    done |-> (IF eval = NoEval THEN {} ELSE eval.done)
                               \cup (IF evaluated THEN {next_time} ELSE {})]} :
     IF emits /\ idx = 0
        THEN /\ panic' = "failed to find index"
             /\ pc' = "aborted"
             /\ eval' = report
             /\ UNCHANGED <<envVars, opVars, roundVars, key, times, times_pos, meets,
                            meet, batch_replay, input_replay, output_replay,
                            synth_times, times_current, output_produced,
                            update_buffer, new_interesting>>
        ELSE /\ input_replay' = ir2
             /\ output_replay' = or2
             /\ batch_replay' = br1
             /\ synth_times' = st2
             /\ times_pos' = pos1
             /\ times_current' = tc2
             /\ output_produced' = op1
             /\ update_buffer' = IF emits THEN <<>> ELSE delta
             /\ buffers' = IF emits
                           THEN [buffers EXCEPT ![idx].upds = @ \o produced]
                           ELSE buffers
             /\ new_interesting' = new_interesting \o pushed
             /\ meet' = m1
             /\ eval' = report
             /\ UNCHANGED <<envVars, opVars, pc, panic, exposed, exposed_position,
                            batch_upds, batch_keys, builders, key, times, meets>>

\* ------------------------------------------------------------------------
\* After compute: the key's new interesting times and its outputs.
\* ------------------------------------------------------------------------
RECURSIVE InsertByVal(_, _)
InsertByVal(s, e) ==
  IF s = <<>> THEN <<e>>
  ELSE IF e.val < Head(s).val THEN <<e>> \o s
  ELSE <<Head(s)>> \o InsertByVal(Tail(s), e)

\* sort_by on the value: a stable sort.
SortByValOmitted(s) == s
RECURSIVE SortByVal(_)
SortByVal(s) ==
  IF s = <<>> THEN <<>>
  ELSE InsertByVal(SortByVal(SubSeq(s, 1, Len(s) - 1)), s[Len(s)])

Keyed(k, s) ==
  [i \in DOMAIN s |-> [key |-> k, val |-> s[i].val, time |-> s[i].time, diff |-> s[i].diff]]

KeyEnd ==
  /\ pc = "compute"
  /\ Candidates = {}
  /\ LET ni == SortDedupTimes(new_interesting)
     IN interesting' = interesting \o [i \in DOMAIN ni |-> <<key, ni[i]>>]
  /\ new_interesting' = <<>>
  /\ batch_keys' = IF batch_keys # <<>> /\ Head(batch_keys) = key
                   THEN Tail(batch_keys) ELSE batch_keys
  /\ builders' = [i \in DOMAIN builders |->
                    builders[i] \o Keyed(key, SortByVal(buffers[i].upds))]
  /\ buffers' = [i \in DOMAIN buffers |-> [buffers[i] EXCEPT !.upds = <<>>]]
  /\ eval' = NoEval
  /\ pc' = "keys"
  /\ UNCHANGED <<envVars, upper_limit, lower_limit, capabilities, out_done,
                 out_upper, out_inserted, out_stream, stream_upper,
                 output_upper, output_lower, src_logical, src_physical,
                 out_logical, out_physical, panic, exposed, exposed_position,
                 batch_upds, key, times, times_pos, meets, meet, batch_replay,
                 input_replay, output_replay, synth_times, times_current,
                 output_produced, update_buffer>>

\* ------------------------------------------------------------------------
\* The end of the round: the batches are sealed and shipped, the
\* capabilities recomputed, the writer sealed and the traces compacted.
\* ------------------------------------------------------------------------
RECURSIVE InsertAll(_, _)
InsertAll(F, ts) ==
  IF ts = <<>> THEN F ELSE InsertAll(AntichainInsert(F, Head(ts)), Tail(ts))

\* The upper bound of the batch of builder i: upper_limit and the
\* capabilities from i + 1 onward.
BatchUpperLimit(i) == upper_limit
BatchUpperFromOwn(i) == InsertAll(upper_limit, SubSeq(capabilities, i, Len(capabilities)))
BatchUpper(i) == InsertAll(upper_limit, SubSeq(capabilities, i + 1, Len(capabilities)))

\* The loop over the builders: the shipped (capability, batch) pairs, with
\* the final output_lower and output_upper.
RECURSIVE ShipLoopStaleLower(_, _, _, _)
ShipLoopStaleLower(i, lower, upper, shipped) ==
  IF i > Len(builders) THEN [lower |-> lower, upper |-> upper, shipped |-> shipped]
  ELSE LET up == BatchUpper(i)
       IN IF up # lower
          THEN ShipLoopStaleLower(i + 1, lower, up,
                                  Append(shipped,
                                         [cap |-> capabilities[i],
                                          batch |-> [lower |-> lower, upper |-> up,
                                                     upds |-> builders[i]]]))
          ELSE ShipLoopStaleLower(i + 1, lower, up, shipped)

RECURSIVE ShipLoopFirstCapability(_, _, _, _)
ShipLoopFirstCapability(i, lower, upper, shipped) ==
  IF i > Len(builders) THEN [lower |-> lower, upper |-> upper, shipped |-> shipped]
  ELSE LET up == BatchUpper(i)
       IN IF up # lower
          THEN ShipLoopFirstCapability(i + 1, up, up,
                                       Append(shipped,
                                              [cap |-> capabilities[1],
                                               batch |-> [lower |-> lower, upper |-> up,
                                                          upds |-> builders[i]]]))
          ELSE ShipLoopFirstCapability(i + 1, lower, up, shipped)

RECURSIVE ShipLoop(_, _, _, _)
ShipLoop(i, lower, upper, shipped) ==
  IF i > Len(builders) THEN [lower |-> lower, upper |-> upper, shipped |-> shipped]
  ELSE LET up == BatchUpper(i)
       IN IF up # lower
          THEN ShipLoop(i + 1, up, up,
                        Append(shipped,
                               [cap |-> capabilities[i],
                                batch |-> [lower |-> lower, upper |-> up,
                                           upds |-> builders[i]]]))
          ELSE ShipLoop(i + 1, lower, up, shipped)

RECURSIVE SeqInsertAll(_, _)
SeqInsertAll(f, ts) ==
  IF ts = <<>> THEN f ELSE SeqInsertAll(SeqInsert(f, Head(ts)), Tail(ts))

\* The frontier of the interesting times, in the antichain's element order.
InterestingFrontierWithExposed ==
  SeqInsertAll(<<>>, [i \in DOMAIN exposed |-> exposed[i][2]]
                       \o [i \in DOMAIN interesting |-> interesting[i][2]])
InterestingFrontier == SeqInsertAll(<<>>, [i \in DOMAIN interesting |-> interesting[i][2]])

\* The capabilities delayed to the frontier's times (a time no held
\* capability is less or equal to gets none).
NewCapabilitiesKept(frontier) == capabilities
NewCapabilities(frontier) ==
  SelectSeq(frontier, LAMBDA t : \E i \in DOMAIN capabilities : LessEq(capabilities[i], t))

Ship ==
  /\ pc = "keys"
  /\ ~MoreKeys
  /\ LET loop == ShipLoop(1, lower_limit, output_upper, <<>>)
         batches == [i \in DOMAIN loop.shipped |-> loop.shipped[i].batch]
     IN /\ output_lower' = loop.lower
        /\ output_upper' = loop.upper
        /\ out_stream' = loop.shipped
        /\ stream_upper' = IF out_stream = <<>> THEN stream_upper
                           ELSE <<out_stream[Len(out_stream)].batch.upper>>
        /\ out_done' = Merged(out_done, batches)
        /\ IF loop.upper # upper_limit
           THEN /\ panic' = "output_upper == upper_limit"
                /\ pc' = "aborted"
                /\ out_inserted' = batches
                /\ out_upper' = UpperAfter(out_upper, batches)
                /\ UNCHANGED <<capabilities, src_done, src_batches, src_logical,
                               src_physical, out_logical, out_physical>>
           ELSE /\ capabilities' = NewCapabilities(InterestingFrontier)
                /\ out_inserted' = batches \o SealBatch(UpperAfter(out_upper, batches),
                                                        upper_limit)
                /\ out_upper' = UpperAfter(out_upper, out_inserted')
                /\ src_logical' = upper_limit /\ src_physical' = upper_limit
                /\ out_logical' = upper_limit /\ out_physical' = upper_limit
                /\ src_done' = Merged(src_done, Compactable(src_batches, upper_limit))
                /\ src_batches' = SelectSeq(src_batches,
                                            LAMBDA b : ~AntichainLE(b.upper, upper_limit))
                /\ pc' = "idle"
                /\ panic' = panic
  \* the round's buffers, builders, cursors and replayer go out of scope
  /\ exposed' = <<>> /\ exposed_position' = 1
  /\ batch_upds' = <<>> /\ batch_keys' = <<>>
  /\ buffers' = <<>> /\ builders' = <<>>
  /\ key' = 0 /\ times' = <<>> /\ times_pos' = 1 /\ meets' = <<>> /\ meet' = None
  /\ batch_replay' = EmptyReplay /\ input_replay' = EmptyReplay
  /\ output_replay' = EmptyReplay
  /\ synth_times' = <<>> /\ times_current' = <<>> /\ output_produced' = <<>>
  /\ UNCHANGED <<op, collVars, inbox, upper_limit, lower_limit, interesting, update_buffer,
                 new_interesting, eval>>

Next ==
  \/ ArrangeSend
  \/ ArrangeSeal
  \/ ActivateNoAdvance
  \/ ActivateNoCapability
  \/ ActivateProcess
  \/ KeyStart
  \/ ComputeStep
  \/ KeyEnd
  \/ Ship

Spec == Init /\ [][Next]_vars

\* The operators built by distinct, by count and by the reduce of the
\* smallest value.
InitDistinct == InitFor({"distinct"})
SpecDistinct == InitDistinct /\ [][Next]_vars
\* An activation is one call of the operator's closure: once started, each
\* of its steps is taken.
Activation == KeyStart \/ ComputeStep \/ KeyEnd \/ Ship
\* distinct over the shorter histories (op "distinct_short").
InitDistinctShort == InitFor({"distinct_short"})
SpecDistinctFair == InitDistinctShort /\ [][Next]_vars /\ WF_vars(Activation)
\* distinct over the taller lattice.
InitDistinctTall == InitFor({"distinct_tall"})
SpecDistinctTall == InitDistinctTall /\ [][Next]_vars
\* distinct over the taller lattice and every key.
InitDistinctKeys == InitFor({"distinct_keys"})
SpecDistinctKeys == InitDistinctKeys /\ [][Next]_vars
InitCount == InitFor({"count"})
SpecCount == InitCount /\ [][Next]_vars
InitMin == InitFor({"min"})
SpecMin == InitMin /\ [][Next]_vars

\* The stream delivers a batch ahead of the batch sent before it: the upper
\* bounds of the batches the operator receives are then not monotone.
ArrangeSendOvertaking ==
  /\ pc = "idle"
  /\ inbox # <<>>
  /\ \E c \in InputTimes(op), U \in InputFrontiers(op) :
       /\ FrontierLessEq(SourceUpper, c)
       /\ ~FrontierLessEq(U, c)
       /\ AntichainLE(SourceUpper, U)
       /\ \E content \in BatchContents(c, U, InputBudget(op) - Len(src_done)
                                                - CountUpdates(src_batches)) :
            LET batch == [lower |-> SourceUpper, upper |-> U,
                          upds |-> SortSeq(SetToSeq(content), UpdLt)]
            IN /\ src_batches' = Append(src_batches, batch)
               /\ inbox' = SubSeq(inbox, 1, Len(inbox) - 1)
                             \o <<[cap |-> c, batch |-> batch], inbox[Len(inbox)]>>
  /\ UNCHANGED <<op, collVars, src_done, opVars, pc, panic, roundVars, keyVars>>

NextUnordered ==
  \/ ArrangeSendOvertaking
  \/ Next

InitUnordered == InitFor({"distinct"})
SpecUnordered == InitUnordered /\ [][NextUnordered]_vars

InitThreshold == InitFor({"threshold"})
SpecThreshold == InitThreshold /\ [][Next]_vars

\* ------------------------------------------------------------------------
\* The reductions over a totally ordered time: threshold_semigroup reads the
\* count of each key of the received batches from the trace and walks the
\* key's updates in order, without replaying histories.
\* ------------------------------------------------------------------------
\* distinct_total_core hands threshold_total the function |_, _| 1; the
\* documented thresh of threshold_total is |_, c| c % 2.
TotalThresh(o, k, c) == IF o = "distinct_total" THEN 1 ELSE Thresh(k, c)

\* The closure threshold_total hands to threshold_semigroup: thresh of the
\* new count less thresh of the old one, or nothing when that is zero.
ThresholdTotal(o, k, new, old) ==
  LET n == TotalThresh(o, k, new)
             - (IF old = None THEN 0 ELSE TotalThresh(o, k, old[1]))
  IN IF n # 0 THEN <<n>> ELSE None

\* The multiplicity of key k before the received batches: nothing when the
\* trace cursor holds no update for the key, which is also the case once
\* the trace has consolidated updates that cancel.
TraceCount(upds, k, cancelled) ==
  LET mine == SelectSeq(upds, LAMBDA u : u.key = k)
  IN IF mine = <<>> \/ (cancelled /\ SumDiffs(mine) = 0) THEN None
     ELSE <<SumDiffs(mine)>>

\* map_times over the updates of key k in the received batches.
ThresholdTimesFromStart(o, k, count, upds) ==
  Concat([i \in DOMAIN upds |->
            LET difference == IF count # None
                              THEN ThresholdTotal(o, k, count[1] + upds[i].diff, count)
                              ELSE ThresholdTotal(o, k, upds[i].diff, None)
            IN IF difference # None /\ difference[1] # 0
               THEN <<[key |-> k, val |-> Unit, time |-> upds[i].time,
                       diff |-> difference[1]]>>
               ELSE <<>>])
RECURSIVE ThresholdTimes(_, _, _, _)
ThresholdTimes(o, k, count, upds) ==
  IF upds = <<>> THEN <<>>
  ELSE LET u == Head(upds)
           difference == IF count # None
                         THEN ThresholdTotal(o, k, count[1] + u.diff, count)
                         ELSE ThresholdTotal(o, k, u.diff, None)
           next == IF count # None THEN <<count[1] + u.diff>> ELSE <<u.diff>>
           given == IF difference # None /\ difference[1] # 0
                    THEN <<[key |-> k, val |-> Unit, time |-> u.time,
                            diff |-> difference[1]]>>
                    ELSE <<>>
       IN given \o ThresholdTimes(o, k, next, Tail(upds))

\* The walk over the keys of the received batches, in order.
RECURSIVE ThresholdKeys(_, _, _, _, _)
ThresholdKeys(o, keys, trace, batch, cancelled) ==
  IF keys = <<>> THEN <<>>
  ELSE ThresholdTimes(o, Head(keys), TraceCount(trace, Head(keys), cancelled),
                      SelectSeq(batch, LAMBDA u : u.key = Head(keys)))
       \o ThresholdKeys(o, Tail(keys), trace, batch, cancelled)

\* One activation of the operator of threshold_semigroup.
ThresholdSemigroup ==
  /\ pc = "idle"
  /\ lower_limit' = upper_limit
  /\ LET batch == Concat([i \in DOMAIN inbox |-> inbox[i].batch.upds])
         keys == Dedup(SortSeq(KeysOf(batch), <))
         trace == Through(src_done, src_batches, upper_limit)
     IN \E cancelled \in BOOLEAN :
          LET given == ThresholdKeys(op, keys, trace, batch, cancelled)
          IN /\ out_stream' = IF inbox = <<>> THEN <<>>
                              ELSE <<[cap |-> inbox[1].cap, upds |-> given]>>
             /\ out_done' = out_done \o given
  /\ upper_limit' = AdvanceUpper(IngestUpper(upper_limit, inbox), src_batches)
  /\ inbox' = <<>>
  /\ src_logical' = upper_limit' /\ src_physical' = upper_limit'
  /\ src_done' = Merged(src_done, Compactable(src_batches, upper_limit'))
  /\ src_batches' = SelectSeq(src_batches, LAMBDA b : ~AntichainLE(b.upper, upper_limit'))
  /\ UNCHANGED <<op, collVars, interesting, capabilities, out_upper, out_inserted, stream_upper,
                 output_upper, output_lower, out_logical, out_physical,
                 pc, panic, roundVars, keyVars>>

NextTotal ==
  \/ ArrangeSend
  \/ ArrangeSeal
  \/ ThresholdSemigroup

InitTotal == InitFor(TotalOps)
SpecTotal == InitTotal /\ [][NextTotal]_vars

InitDistinctTotal == InitFor({"distinct_total"})
SpecDistinctTotal == InitDistinctTotal /\ [][NextTotal]_vars

\* ------------------------------------------------------------------------
\* The methods of Collection: each is a transformation of the stream of
\* update triples (data, time, diff).
\* ------------------------------------------------------------------------
Triples == [val : Keys, time : Times, diff : Diffs]

\* The predicates on the data, each the set of the data it holds of.
Predicates == SUBSET Keys
Complement(p) == Keys \ p

\* filter: the triples whose data satisfy the predicate, as they are.
CollectionFilter(p, s) == SelectSeq(s, LAMBDA u : u.val \in p)

\* concat: the updates of both streams, in one of the orders in which they
\* may arrive.
RECURSIVE Interleavings(_, _)
Interleavings(a, b) ==
  IF a = <<>> THEN {b}
  ELSE IF b = <<>> THEN {a}
  ELSE {<<Head(a)>> \o r : r \in Interleavings(Tail(a), b)}
         \cup {<<Head(b)>> \o r : r \in Interleavings(a, Tail(b))}

CollectionConcatFirst(a, b) == {a}
CollectionConcat(a, b) == Interleavings(a, b)

\* negate: each triple with its diff negated.
CollectionNegate(s) == Negated(s)

\* consolidate: the triples sorted, the diffs of equal (data, time) summed,
\* zeros dropped.
CollectionConsolidate(s) == ConsolidateVT(s)

\* assert_empty panics on an element of the consolidated collection.
AssertEmpty(s) == CollectionConsolidate(s) # <<>>

\* assert_eq: whether the assertion is raised, for each order of arrival.
AssertEqUnnegated(a, b) == {AssertEmpty(c) : c \in CollectionConcat(a, b)}
AssertEq(a, b) == {AssertEmpty(c) : c \in CollectionConcat(CollectionNegate(a), b)}

\* An update triple is given to one of the two collections.
CollectionGive ==
  /\ op = "collection"
  /\ coll_out = NoOut
  /\ Len(coll_x) + Len(coll_y) < MaxGiven
  /\ \E u \in Triples :
       \/ coll_x' = Append(coll_x, u) /\ coll_y' = coll_y
       \/ coll_y' = Append(coll_y, u) /\ coll_x' = coll_x
  /\ UNCHANGED <<op, coll_out, wrapVars, src_done, src_batches, inbox, opVars, pc, panic,
                 roundVars, keyVars>>

\* x.filter(p).concat(&x.filter(not p))
CollectionPartition ==
  /\ op = "collection"
  /\ coll_out = NoOut
  /\ \E p \in Predicates :
       LET left == CollectionFilter(p, coll_x)
           right == CollectionFilter(Complement(p), coll_x)
       IN \E out \in CollectionConcat(left, right) :
            coll_out' = [method |-> "concat_filter", left |-> left, right |-> right,
                         out |-> out]
  /\ UNCHANGED <<op, coll_x, coll_y, wrapVars, src_done, src_batches, inbox, opVars, pc, panic,
                 roundVars, keyVars>>

\* x.negate().concat(&x), consolidated
CollectionCancel ==
  /\ op = "collection"
  /\ coll_out = NoOut
  /\ \E out \in CollectionConcat(CollectionNegate(coll_x), coll_x) :
       coll_out' = [method |-> "concat_negate", out |-> out,
                    consolidated |-> CollectionConsolidate(out)]
  /\ UNCHANGED <<op, coll_x, coll_y, wrapVars, src_done, src_batches, inbox, opVars, pc, panic,
                 roundVars, keyVars>>

\* x.assert_eq(&y)
CollectionAssertEq ==
  /\ op = "collection"
  /\ coll_out = NoOut
  /\ \E raised \in AssertEq(coll_x, coll_y) :
       coll_out' = [method |-> "assert_eq", raised |-> raised]
  /\ UNCHANGED <<op, coll_x, coll_y, wrapVars, src_done, src_batches, inbox, opVars, pc, panic,
                 roundVars, keyVars>>

\* Refines: a region's timestamp is its parent's; an iterative scope's is
\* the product of the parent's timestamp and a round counter (written as
\* the parent's coordinates followed by the counter), the parent's time
\* entering at the round minimum.
Refinements == {"region", "product"}
ToInner(r, t) == IF r = "region" THEN t ELSE Append(t, 0)
ToOuter(r, t) == IF r = "region" THEN t ELSE SubSeq(t, 1, Len(t) - 1)

\* enter: each triple with its time brought into the nested scope.
CollectionEnter(r, s) == [i \in DOMAIN s |-> [s[i] EXCEPT !.time = ToInner(r, s[i].time)]]

\* leave: each triple with its time returned to the containing scope.
CollectionLeaveUnmapped(r, s) == s
CollectionLeave(r, s) == [i \in DOMAIN s |-> [s[i] EXCEPT !.time = ToOuter(r, s[i].time)]]

\* x.enter(child).leave()
CollectionEnterLeave ==
  /\ op = "collection"
  /\ coll_out = NoOut
  /\ \E r \in Refinements :
       LET entered == CollectionEnter(r, coll_x)
       IN coll_out' = [method |-> "enter_leave", refinement |-> r, entered |-> entered,
                       out |-> CollectionLeave(r, entered)]
  /\ UNCHANGED <<op, coll_x, coll_y, wrapVars, src_done, src_batches, inbox, opVars, pc, panic,
                 roundVars, keyVars>>

NextCollection ==
  \/ CollectionGive
  \/ CollectionPartition
  \/ CollectionCancel
  \/ CollectionAssertEq
  \/ CollectionEnterLeave

InitCollection == InitFor({"collection"})
SpecCollection == InitCollection /\ [][NextCollection]_vars

\* ------------------------------------------------------------------------
\* Trace wrappers (trace/wrappers/filter.rs, trace/wrappers/enter.rs).  A
\* wrapper holds a cursor of the wrapped type and answers every call by
\* calling it.  The wrapped trace is a set of updates (key, val, time,
\* diff); a cursor over it is a position among its keys, in order, and a
\* position among the values of that key, in order.
\* ------------------------------------------------------------------------
\* The largest number of updates of the wrapped trace.
MaxWrapped == 2

Vals == 1 .. NumVals
WrappedUpdates == [key : Keys, val : Vals, time : Times, diff : Diffs]
IntLt(a, b) == a < b
StorageKeys(s) == SortSeq(SetToSeq({u.key : u \in s}), IntLt)
StorageVals(s, k) == SortSeq(SetToSeq({u.val : u \in {x \in s : x.key = k}}), IntLt)

CursorKeyValid(s, c) == c.key_pos <= Len(StorageKeys(s))
CursorKey(s, c) == StorageKeys(s)[c.key_pos]
CursorValValid(s, c) ==
  CursorKeyValid(s, c) /\ c.val_pos <= Len(StorageVals(s, CursorKey(s, c)))
CursorVal(s, c) == StorageVals(s, CursorKey(s, c))[c.val_pos]
CursorGetKey(s, c) == IF CursorKeyValid(s, c) THEN <<CursorKey(s, c)>> ELSE None
CursorGetVal(s, c) == IF CursorValValid(s, c) THEN <<CursorVal(s, c)>> ELSE None

\* The first position of the ordered list from position p onward whose
\* element is not less than x.
RECURSIVE SeekFrom(_, _, _)
SeekFrom(list, p, x) ==
  IF p <= Len(list) /\ list[p] < x THEN SeekFrom(list, p + 1, x) ELSE p

\* The navigation calls of a cursor, with their arguments.
CursorCalls ==
  {[name |-> n] : n \in {"step_key", "step_val", "rewind_keys", "rewind_vals"}}
    \cup {[name |-> "seek_key", arg |-> k] : k \in Keys}
    \cup {[name |-> "seek_val", arg |-> v] : v \in Vals}

\* The cursor after a navigation call.
CursorCall(s, c, call) ==
  CASE call.name = "step_key" ->
         IF CursorKeyValid(s, c) THEN [key_pos |-> c.key_pos + 1, val_pos |-> 1] ELSE c
    [] call.name = "seek_key" ->
         [key_pos |-> SeekFrom(StorageKeys(s), c.key_pos, call.arg), val_pos |-> 1]
    [] call.name = "step_val" ->
         IF CursorValValid(s, c) THEN [c EXCEPT !.val_pos = c.val_pos + 1] ELSE c
    [] call.name = "seek_val" ->
         IF CursorKeyValid(s, c)
         THEN [c EXCEPT !.val_pos = SeekFrom(StorageVals(s, CursorKey(s, c)), c.val_pos, call.arg)]
         ELSE c
    [] call.name = "rewind_keys" -> Rewound
    [] call.name = "rewind_vals" -> [c EXCEPT !.val_pos = 1]

\* map_times: the (time, diff) pairs of the current key and value, in the
\* order of the times.
CursorMapTimes(s, c) ==
  LET here == {u \in s : u.key = CursorKey(s, c) /\ u.val = CursorVal(s, c)}
  IN SortSeq(SetToSeq({[time |-> u.time, diff |-> u.diff] : u \in here}),
             LAMBDA x, y : TimeLt(x.time, y.time))

\* What a cursor shows of its position.
CursorView(s, c) ==
  [key_valid |-> CursorKeyValid(s, c), val_valid |-> CursorValValid(s, c),
   get_key |-> CursorGetKey(s, c), get_val |-> CursorGetVal(s, c)]

\* A batch: its updates and its description.
Descriptions == [lower : Frontiers, upper : Frontiers, since : Frontiers]
BatchLen(b) == Cardinality(b.updates)
BatchDescription(b) == b.description

\* TraceFilter.  The predicate is the set of (key, val) pairs it holds for.
Logics == SUBSET (Keys \X Vals)
\* CursorFilter and BatchCursorFilter: key_valid, val_valid, get_key,
\* get_val and the navigation calls go to the wrapped cursor (the batch
\* cursor passes the wrapped batch, storage.batch, as the storage).
CursorFilterView(s, w) == CursorView(s, w.cursor)
CursorFilterCall(s, w, call) == [w EXCEPT !.cursor = CursorCall(s, w.cursor, call)]
\* map_times: only where logic(key, val) holds.
CursorFilterMapTimesUnfiltered(s, w) == CursorMapTimes(s, w.cursor)
CursorFilterMapTimes(s, w) ==
  LET k == CursorKey(s, w.cursor)
      v == CursorVal(s, w.cursor)
  IN IF <<k, v>> \in w.logic THEN CursorMapTimes(s, w.cursor) ELSE <<>>
\* BatchFilter: len and description are those of the wrapped batch.
BatchFilterLen(bf) == BatchLen(bf.batch)
BatchFilterDescription(bf) == BatchDescription(bf.batch)

\* TraceEnter.  The times of the nested scope; those of a product carry one
\* more coordinate, ordered coordinate by coordinate.
InnerTimes(r) ==
  IF r = "region" THEN Times ELSE {Append(t, i) : t \in Times, i \in 0 .. MaxT}
InnerLessEq(r, s, t) == LessEq(s, t) /\ (r = "product" => s[3] <= t[3])
InnerFrontiers(r) ==
  {F \in SUBSET InnerTimes(r) : \A s \in F, t \in F : s # t => ~InnerLessEq(r, s, t)}
\* Antichain::from over the times of the nested scope.
InnerAntichain(r, S) == {t \in S : ~ \E u \in S : u # t /\ InnerLessEq(r, u, t)}

\* CursorEnter and BatchCursorEnter: as for the filter, every call but
\* map_times goes to the wrapped cursor.
CursorEnterView(s, w) == CursorView(s, w.cursor)
CursorEnterCall(s, w, call) == [w EXCEPT !.cursor = CursorCall(s, w.cursor, call)]
\* map_times: every time is handed on as to_inner(time).
CursorEnterMapTimesOuter(s, w) == CursorMapTimes(s, w.cursor)
CursorEnterMapTimes(s, w) ==
  LET seen == CursorMapTimes(s, w.cursor)
  IN [i \in DOMAIN seen |->
        [time |-> ToInner(w.refinement, seen[i].time), diff |-> seen[i].diff]]
\* BatchEnter::make_from: the description is mapped once, on construction.
BatchEnterMakeFrom(r, batch) ==
  LET d == BatchDescription(batch)
      Inner(F) == InnerAntichain(r, {ToInner(r, x) : x \in F})
  IN [batch |-> batch,
      description |-> [lower |-> Inner(d.lower), upper |-> Inner(d.upper),
                       since |-> Inner(d.since)]]
BatchEnterLen(be) == BatchLen(be.batch)
BatchEnterDescription(be) == be.description
\* The frontier handed to the wrapped trace by cursor_through,
\* set_logical_compaction and set_physical_compaction: stash1, cleared and
\* then given to_outer of every element.
TraceEnterOuter(r, frontier) ==
  InsertAll({}, [i \in DOMAIN SetToSeq(frontier) |-> ToOuter(r, SetToSeq(frontier)[i])])
CursorSeen == {"none", "navigate", "map_times"}
FrontierCalls == {"cursor_through", "set_logical_compaction", "set_physical_compaction"}

\* An update enters the wrapped trace before it is wrapped.
WrapperInsert ==
  /\ op = "wrapper"
  /\ wrapper = NoWrapper
  /\ Cardinality(wr_storage) < MaxWrapped
  /\ \E u \in WrappedUpdates :
       /\ ~ \E x \in wr_storage : x.key = u.key /\ x.val = u.val /\ x.time = u.time
       /\ wr_storage' = wr_storage \cup {u}
  /\ UNCHANGED <<op, coll_x, coll_y, coll_out, wr_cursor, wrapper, wr_seen, src_done,
                 src_batches, inbox, opVars, pc, panic, roundVars, keyVars>>

\* TraceFilter::make_from with a predicate, or TraceEnter::make_from into a
\* nested scope; a cursor is taken of the wrapper and one of the trace.
WrapperMake ==
  /\ op = "wrapper"
  /\ wrapper = NoWrapper
  /\ \/ \E logic \in Logics :
          wrapper' = [kind |-> "filter", logic |-> logic, cursor |-> Rewound]
     \/ \E r \in Refinements :
          wrapper' = [kind |-> "enter", refinement |-> r, cursor |-> Rewound]
  /\ UNCHANGED <<op, coll_x, coll_y, coll_out, wr_storage, wr_cursor, wr_seen, src_done,
                 src_batches, inbox, opVars, pc, panic, roundVars, keyVars>>

\* One navigation call, made on the wrapper's cursor and on the cursor of
\* the wrapped type.  (Reading a batch or handing a frontier on moves
\* neither cursor, so the calls that follow are those of the state before.)
WrapperNavigate ==
  /\ op = "wrapper"
  /\ wrapper # NoWrapper
  /\ wr_seen.call \in CursorSeen
  /\ \E call \in CursorCalls :
       LET c == CursorCall(wr_storage, wr_cursor, call)
           w == IF wrapper.kind = "filter"
                THEN CursorFilterCall(wr_storage, wrapper, call)
                ELSE CursorEnterCall(wr_storage, wrapper, call)
       IN /\ wr_cursor' = c
          /\ wrapper' = w
          /\ wr_seen' = [call |-> "navigate",
                         wrapped |-> CursorView(wr_storage, c),
                         wrapper |-> IF wrapper.kind = "filter"
                                     THEN CursorFilterView(wr_storage, w)
                                     ELSE CursorEnterView(wr_storage, w)]
  /\ UNCHANGED <<op, coll_x, coll_y, coll_out, wr_storage, src_done, src_batches, inbox,
                 opVars, pc, panic, roundVars, keyVars>>

\* map_times on both cursors, at a value.
WrapperMapTimes ==
  /\ op = "wrapper"
  /\ wrapper # NoWrapper
  /\ wr_seen.call \in CursorSeen
  /\ CursorValValid(wr_storage, wrapper.cursor)
  /\ CursorValValid(wr_storage, wr_cursor)
  /\ wr_seen' = [call |-> "map_times",
                 wrapped |-> CursorMapTimes(wr_storage, wr_cursor),
                 wrapper |-> IF wrapper.kind = "filter"
                             THEN CursorFilterMapTimes(wr_storage, wrapper)
                             ELSE CursorEnterMapTimes(wr_storage, wrapper)]
  /\ UNCHANGED <<op, coll_x, coll_y, coll_out, wr_storage, wr_cursor, wrapper, src_done,
                 src_batches, inbox, opVars, pc, panic, roundVars, keyVars>>

\* map_batches: a batch of the wrapped trace, not compacted beyond its
\* lower bound, is wrapped, and its length and description read.
WrapperBatch ==
  /\ op = "wrapper"
  /\ wrapper # NoWrapper
  /\ wr_seen = NoCall
  /\ \E d \in Descriptions :
       /\ AntichainLE(d.lower, d.upper) /\ d.lower # d.upper
       /\ AntichainLE(d.since, d.lower)
       /\ LET batch == [updates |-> wr_storage, description |-> d]
              wrapped == IF wrapper.kind = "filter"
                         THEN [batch |-> batch, logic |-> wrapper.logic]
                         ELSE BatchEnterMakeFrom(wrapper.refinement, batch)
          IN wr_seen' = [call |-> "batch", batch |-> batch,
                         len |-> IF wrapper.kind = "filter" THEN BatchFilterLen(wrapped)
                                 ELSE BatchEnterLen(wrapped),
                         description |-> IF wrapper.kind = "filter"
                                         THEN BatchFilterDescription(wrapped)
                                         ELSE BatchEnterDescription(wrapped)]
  /\ UNCHANGED <<op, coll_x, coll_y, coll_out, wr_storage, wr_cursor, wrapper, src_done,
                 src_batches, inbox, opVars, pc, panic, roundVars, keyVars>>

\* cursor_through, set_logical_compaction or set_physical_compaction on a
\* TraceEnter with a frontier of the nested scope; cursor_through hands
\* back new cursors.
TraceEnterForward ==
  /\ op = "wrapper"
  /\ wrapper # NoWrapper
  /\ wrapper.kind = "enter"
  /\ wr_seen = NoCall
  /\ \E name \in FrontierCalls, frontier \in InnerFrontiers(wrapper.refinement) :
       /\ wr_seen' = [call |-> name, frontier |-> frontier,
                      forwarded |-> TraceEnterOuter(wrapper.refinement, frontier)]
       /\ IF name = "cursor_through"
          THEN wrapper' = [wrapper EXCEPT !.cursor = Rewound] /\ wr_cursor' = Rewound
          ELSE UNCHANGED <<wrapper, wr_cursor>>
  /\ UNCHANGED <<op, coll_x, coll_y, coll_out, wr_storage, src_done, src_batches, inbox,
                 opVars, pc, panic, roundVars, keyVars>>

NextWrapper ==
  \/ WrapperInsert
  \/ WrapperMake
  \/ WrapperNavigate
  \/ WrapperMapTimes
  \/ WrapperBatch
  \/ TraceEnterForward

InitWrapper == InitFor({"wrapper"})
SpecWrapper == InitWrapper /\ [][NextWrapper]_vars

\* ------------------------------------------------------------------------
\* Accumulations, for the statements below.
\* ------------------------------------------------------------------------
\* Every update the input arrangement has produced.
AllInput == Through(src_done, src_batches, {})

\* The consolidated multiset of (val, diff) of key k at the times <= t.
Accumulate(upds, k, t) ==
  LET vis == SelectSeq(upds, LAMBDA u : u.key = k /\ LessEq(u.time, t))
  IN ConsolidateV([i \in DOMAIN vis |-> [val |-> vis[i].val, diff |-> vis[i].diff]])

\* The output the reduction owes for an accumulated input.
Reduced(o, k, input) ==
  IF input = <<>> THEN <<>> ELSE ConsolidateV(UserLogic(o, k, input))

\* C1: between activations, for every key and every time not in advance of
\* upper_limit, the output trace accumulates to the reduction of the
\* accumulated input (and to nothing when that input is empty).
C1_AccumulationEquivalence ==
  pc = "idle" =>
    \A k \in Keys, t \in Times :
      ~FrontierLessEq(upper_limit, t) =>
        Accumulate(out_done, k, t) = Reduced(op, k, Accumulate(AllInput, k, t))

\* A round has produced an output at the join of two input times, a time
\* that carries no input update.
C1_Witness ==
  /\ pc = "idle"
  /\ \E i \in DOMAIN out_done :
       /\ ~FrontierLessEq(upper_limit, out_done[i].time)
       /\ \A j \in DOMAIN AllInput : AllInput[j].time # out_done[i].time
       /\ \E j1 \in DOMAIN AllInput, j2 \in DOMAIN AllInput :
            /\ AllInput[j1].key = out_done[i].key /\ AllInput[j2].key = out_done[i].key
            /\ Join(AllInput[j1].time, AllInput[j2].time) = out_done[i].time

\* ------------------------------------------------------------------------
\* What one round has produced so far: the builders' contents and, for the
\* key under computation, the buffers'.
\* ------------------------------------------------------------------------
Buffered == Concat([i \in DOMAIN buffers |-> buffers[i].upds])
RoundOutput == Concat(builders) \o Keyed(key, Buffered)

ValDiffs(s) == [i \in DOMAIN s |-> [val |-> s[i].val, diff |-> s[i].diff]]

\* C2: at every time compute evaluates, the updates emitted for the key at
\* that time are the consolidated difference between the reduction of the
\* input accumulated at the time and the output emitted before (by earlier
\* rounds and earlier in this call) accumulated at the time; no emitted
\* update has a zero diff, and no (key, value, time) is emitted twice in a
\* round.
C2_DeltaExactness ==
  /\ (pc = "compute" /\ eval.step = "iter" /\ eval.evaluated) =>
       LET t == eval.time
           emitted == SelectSeq(Buffered, LAMBDA u : u.time = t)
           before == out_done \o Keyed(key, SelectSeq(Buffered, LAMBDA u : u.time # t))
           fresh == Reduced(op, key, Accumulate(AllInput, key, t))
       IN ValDiffs(emitted) = ConsolidateV(fresh \o Negated(Accumulate(before, key, t)))
  /\ \A i \in DOMAIN RoundOutput :
       /\ RoundOutput[i].diff # 0
       /\ \A j \in DOMAIN RoundOutput :
            (i # j /\ RoundOutput[i].key = RoundOutput[j].key
                   /\ RoundOutput[i].val = RoundOutput[j].val)
              => RoundOutput[i].time # RoundOutput[j].time

\* compute has just emitted a retraction and an addition at one time, over
\* an output emitted by an earlier round.
C2_Witness ==
  /\ pc = "compute" /\ eval.step = "iter" /\ eval.emits
  /\ Len(eval.delta) = 2
  /\ eval.output # <<>>
  /\ out_done # <<>>

\* C3: a non-empty delta at next_time finds a capability with a time less
\* or equal to next_time (the lookup never fails), and every update of a
\* shipped batch is at a time greater or equal to the time of the
\* capability the batch was sent under.
C3_CapabilityCoverage ==
  /\ panic # "failed to find index"
  /\ (eval.step = "iter" /\ eval.emits) =>
       /\ eval.idx \in DOMAIN buffers
       /\ LessEq(capabilities[eval.idx], eval.time)
  /\ \A i \in DOMAIN out_stream :
       \A j \in DOMAIN out_stream[i].batch.upds :
         LessEq(out_stream[i].cap, out_stream[i].batch.upds[j].time)

\* A round held two capabilities and shipped a non-empty batch under each.
C3_Witness ==
  /\ pc = "idle"
  /\ Len(out_stream) = 2
  /\ out_stream[1].batch.upds # <<>>
  /\ out_stream[2].batch.upds # <<>>

\* ------------------------------------------------------------------------
\* The batches of the output stream and of the output trace.
\* ------------------------------------------------------------------------
\* Each batch of bs begins where its predecessor ends, the first at `from`.
Chained(from, bs) ==
  \A i \in DOMAIN bs : bs[i].lower = (IF i = 1 THEN from ELSE bs[i - 1].upper)

Shipped == [i \in DOMAIN out_stream |-> out_stream[i].batch]

\* C4 as stated: any two batches sent consecutively, within a round and
\* from one shipping round to the next, meet: the upper bound of the
\* earlier is the lower bound of the later.
C4_StreamContiguous ==
  /\ \A i \in DOMAIN Shipped : i > 1 => Shipped[i].lower = Shipped[i - 1].upper
  /\ (stream_upper # <<>> /\ Shipped # <<>>) => Shipped[1].lower = stream_upper[1]

\* C4, amended: the batches handed to the output trace's writer (the shipped
\* batches and the empty batches its seal inserts) are contiguous, each
\* beginning at the upper bound the writer had reached; the batches one
\* round ships are contiguous among themselves.
C4_TraceContiguous ==
  [][/\ out_inserted' # out_inserted => Chained(out_upper, out_inserted')
     /\ out_stream' # out_stream =>
          Chained(lower_limit', [i \in DOMAIN out_stream' |-> out_stream'[i].batch])]_vars

\* A second shipping round has shipped two batches, after progress.
C4_Witness ==
  /\ pc = "idle"
  /\ stream_upper # <<>>
  /\ Len(out_stream) = 2
  /\ Len(out_inserted) >= 2

\* The minimal elements of the times in `interesting`.
InterestingTimes == {interesting[i][2] : i \in DOMAIN interesting}
MinimalTimes(S) == {t \in S : ~ \E u \in S : LessThan(u, t)}
CapabilityTimes == {capabilities[i] : i \in DOMAIN capabilities}

\* C5: between activations the times of the held capabilities are exactly
\* the minimal antichain of the times in `interesting`, each held once; in
\* particular no capability is held when `interesting` is empty.
C5_CapabilityRelease ==
  pc = "idle" =>
    /\ CapabilityTimes = MinimalTimes(InterestingTimes)
    /\ Len(capabilities) = Cardinality(CapabilityTimes)
    /\ interesting = <<>> => capabilities = <<>>

\* A round has shipped output and left an interesting time for later, under
\* a capability downgraded to it.
C5_Witness ==
  /\ pc = "idle"
  /\ out_stream # <<>>
  /\ interesting # <<>>
  /\ capabilities # <<>>
  /\ \A i \in DOMAIN out_stream : out_stream[i].cap \notin CapabilityTimes

\* C6: an activation that receives no batch and holds no capability, and
\* in which upper_limit advances, seals the writer to the new upper_limit,
\* sends nothing, and sets the logical and physical compaction of both
\* traces to upper_limit.
C6_EmptyProgress ==
  [][(pc = "idle" /\ inbox = <<>> /\ capabilities = <<>>
        /\ upper_limit' # upper_limit) =>
       /\ out_upper' = upper_limit'
       /\ out_inserted' = <<[lower |-> out_upper, upper |-> upper_limit', upds |-> <<>>]>>
       /\ out_stream' = out_stream
       /\ out_done' = out_done
       /\ src_logical' = upper_limit' /\ src_physical' = upper_limit'
       /\ out_logical' = upper_limit' /\ out_physical' = upper_limit'
       /\ capabilities' = <<>>
       /\ pc' = "idle"]_vars

\* Progress over an empty input: the writer is sealed to an upper_limit
\* beyond the minimum, and nothing was ever sent.
C6_Witness ==
  /\ pc = "idle"
  /\ src_done = <<>> /\ src_batches = <<>>
  /\ capabilities = <<>>
  /\ out_stream = <<>>
  /\ upper_limit = {<<MaxT, MaxT>>}
  /\ out_upper = upper_limit
  /\ out_physical = upper_limit /\ src_logical = upper_limit
  /\ Len(out_inserted) = 1

\* C7: the user logic of reduce is invoked only with a non-empty input
\* slice, sorted by value with each value once and no zero diff, and with
\* an empty vector to fill.
C7_UserLogicInput ==
  (eval.step = "iter" /\ eval.user) =>
    /\ eval.input # <<>>
    /\ \A i \in DOMAIN eval.input : eval.input[i].diff # 0
    /\ \A i \in DOMAIN eval.input, j \in DOMAIN eval.input :
         i < j => eval.input[i].val < eval.input[j].val
    /\ eval.change = <<>>

\* The user logic has been invoked on two values, one of them accumulated
\* from the trace and one from the batch.
C7_Witness ==
  /\ eval.step = "iter" /\ eval.user
  /\ Len(eval.input) = 2
  /\ src_done # <<>>

\* C8: the logic handed to reduce_core is never invoked with both an empty
\* input and an empty previous output.
C8_LogicNeverBothEmpty ==
  (eval.step = "iter" /\ eval.called) =>
    (eval.input # <<>> \/ eval.output # <<>>)

\* compute has evaluated an interesting time at which the input and the
\* previous output are both empty, and has not invoked the logic.
C8_Witness ==
  /\ eval.step = "iter" /\ eval.evaluated
  /\ eval.input = <<>> /\ eval.output = <<>>
  /\ ~eval.called

\* The sum of the diffs of the input updates of key k at the times <= t.
InputCount(k, t) == SumDiffs(SelectSeq(AllInput, LAMBDA u : u.key = k /\ LessEq(u.time, t)))

\* C9: under distinct, for every key and every time not in advance of
\* upper_limit, the output accumulates to the key once (diff +1) when the
\* key's accumulated input count is non-zero, and to nothing otherwise.
C9_Distinct ==
  pc = "idle" =>
    \A k \in Keys, t \in Times :
      ~FrontierLessEq(upper_limit, t) =>
        Accumulate(out_done, k, t) =
          (IF InputCount(k, t) # 0 THEN <<[val |-> Unit, diff |-> 1]>> ELSE <<>>)

\* A key was inserted twice and then retracted twice: its count reaches
\* two at one time and zero at a later one, by which the output has
\* retracted it.
C9_Witness ==
  /\ pc = "idle" /\ op = "distinct"
  /\ \E t1 \in Times, t2 \in Times :
       /\ LessThan(t1, t2) /\ ~FrontierLessEq(upper_limit, t2)
       /\ InputCount(1, t1) = 2 /\ InputCount(1, t2) = 0
       /\ \E i \in DOMAIN out_done :
            /\ out_done[i].key = 1 /\ out_done[i].diff = -1
            /\ LessEq(out_done[i].time, t2)

OutputCount(k, t) ==
  SumDiffs(SelectSeq(out_done, LAMBDA u : u.key = k /\ LessEq(u.time, t)))

\* The updates of key k, as (time, diff) pairs.
KeyUpdates(upds, k) ==
  {<<upds[i].time, upds[i].diff>> : i \in {j \in DOMAIN upds : upds[j].key = k}}

\* C11: under threshold, for every key and every time not in advance of
\* upper_limit, the output diffs of the key accumulate to thresh(k, c) when
\* the key's accumulated input count c is non-zero and to zero when it is
\* zero; with thresh = count mod 2, three copies at one time and a fourth at
\* a later time give the outputs +1 at the first and -1 at the second.
C11_Threshold ==
  pc = "idle" =>
    /\ \A k \in Keys, t \in Times :
         ~FrontierLessEq(upper_limit, t) =>
           OutputCount(k, t) =
             (IF InputCount(k, t) # 0 THEN Thresh(k, InputCount(k, t)) ELSE 0)
    /\ \A k \in Keys, t0 \in Times, t1 \in Times :
         (/\ LessThan(t0, t1) /\ ~FrontierLessEq(upper_limit, t1)
          /\ KeyUpdates(AllInput, k) = {<<t0, 3>>, <<t1, 1>>}) =>
           KeyUpdates(out_done, k) = {<<t0, 1>>, <<t1, -1>>}

\* Three copies of a key were added at one time and a fourth at a later
\* time, and the operator has processed both.
C11_Witness ==
  /\ pc = "idle" /\ op = "threshold"
  /\ \E t0 \in Times, t1 \in Times :
       /\ LessThan(t0, t1) /\ ~FrontierLessEq(upper_limit, t1)
       /\ KeyUpdates(AllInput, 1) = {<<t0, 3>>, <<t1, 1>>}
       /\ KeyUpdates(out_done, 1) = {<<t0, 1>>, <<t1, -1>>}
\* C12: under distinct_total, for every key and every time not in advance
\* of upper_limit, the output accumulates to the key once when the key's
\* accumulated input count is non-zero and to nothing when it is zero.
C12_DistinctTotal ==
  (pc = "idle" /\ op = "distinct_total") =>
    \A k \in Keys, t \in TotalTimes :
      ~FrontierLessEq(upper_limit, t) =>
        Accumulate(out_done, k, t) =
          (IF InputCount(k, t) # 0 THEN <<[val |-> Unit, diff |-> 1]>> ELSE <<>>)
\* The general reduction a reduction over a totally ordered time specializes.
GeneralOf(o) == IF o = "distinct_total" THEN "distinct" ELSE "threshold"

\* C13: over a totally ordered time, for every key and every time not in
\* advance of upper_limit, the output of threshold_total (distinct_total)
\* accumulates to what the output of threshold (distinct) accumulates to:
\* the reduction of the accumulated input.
C13_FastPathEquivalence ==
  (pc = "idle" /\ op \in TotalOps) =>
    \A k \in Keys, t \in TotalTimes :
      ~FrontierLessEq(upper_limit, t) =>
        Accumulate(out_done, k, t) =
          Reduced(GeneralOf(op), k, Accumulate(AllInput, k, t))
\* C14: each batch a round sends is sent under one capability held in that
\* round, which is in advance of none of the batch's update times, and no
\* two batches of the round are sent under the same held capability.
C14_SessionPerCapability ==
  [][(pc = "keys" /\ pc' \in {"idle", "aborted"}) =>
       /\ \A i \in DOMAIN out_stream' :
            /\ \E j \in DOMAIN capabilities : capabilities[j] = out_stream'[i].cap
            /\ \A n \in DOMAIN out_stream'[i].batch.upds :
                 LessEq(out_stream'[i].cap, out_stream'[i].batch.upds[n].time)
       /\ \A i \in DOMAIN out_stream', j \in DOMAIN out_stream' :
            out_stream'[i].cap = out_stream'[j].cap => i = j
       /\ \A i \in DOMAIN capabilities, j \in DOMAIN capabilities :
            capabilities[i] = capabilities[j] => i = j]_vars

\* A round has sent two batches, each holding updates, under two different
\* capabilities.
C14_Witness ==
  /\ pc = "idle"
  /\ Len(out_stream) = 2
  /\ out_stream[1].cap # out_stream[2].cap
  /\ out_stream[1].batch.upds # <<>> /\ out_stream[2].batch.upds # <<>>
\* The upper bounds of the batches of the messages, in the order received,
\* are monotone.
MonotoneUppers(msgs) ==
  \A i \in DOMAIN msgs, j \in DOMAIN msgs :
    i < j => AntichainLE(msgs[i].batch.upper, msgs[j].batch.upper)

\* C15: an activation that receives batches whose upper bounds are not
\* monotone aborts.
C15_AbortOnRegress ==
  [][(pc = "idle" /\ ~MonotoneUppers(inbox) /\ inbox' = <<>>) => pc' = "aborted"]_vars
\* C16: every batch handed to the output trace satisfies its description:
\* its lower frontier is <= its upper frontier, each update's time is >=
\* some element of the lower frontier and >= no element of the upper
\* frontier; the assertion output_upper == upper_limit does not fail, and
\* between activations the output trace ends at upper_limit.
C16_BatchDescription ==
  /\ \A i \in DOMAIN out_inserted :
       LET b == out_inserted[i]
       IN /\ AntichainLE(b.lower, b.upper)
          /\ \A n \in DOMAIN b.upds :
               /\ FrontierLessEq(b.lower, b.upds[n].time)
               /\ ~FrontierLessEq(b.upper, b.upds[n].time)
  /\ panic = "none"
  /\ pc = "idle" => out_upper = upper_limit

\* A round has sealed two batches that hold updates: the second begins at
\* the upper frontier of the first, which holds a capability's time.
C16_Witness ==
  /\ pc = "idle"
  /\ Len(out_inserted) >= 2
  /\ out_inserted[1].upds # <<>> /\ out_inserted[2].upds # <<>>
  /\ out_inserted[2].lower # lower_limit
  /\ output_upper = upper_limit
\* C17: between activations every held capability has a time in advance of
\* upper_limit: some element of upper_limit is <= its time.
C17_CapabilitiesInAdvance ==
  pc = "idle" =>
    \A i \in DOMAIN capabilities : FrontierLessEq(upper_limit, capabilities[i])

\* A round advanced upper_limit, sent a batch under a capability and holds
\* afterwards a capability downgraded from it to a time in advance of
\* upper_limit.
C17_Witness ==
  /\ pc = "idle"
  /\ upper_limit # lower_limit
  /\ \E i \in DOMAIN capabilities, j \in DOMAIN out_stream :
       /\ LessThan(out_stream[j].cap, capabilities[i])
       /\ ~FrontierLessEq(upper_limit, out_stream[j].cap)
       /\ FrontierLessEq(upper_limit, capabilities[i])
\* The updates are in ascending order of key, then value, then time.
BuilderOrdered(upds) ==
  \A n \in DOMAIN upds, m \in DOMAIN upds : n < m => UpdLt(upds[n], upds[m])

\* C18: the updates pushed to each builder, and so those of each sealed
\* output batch, ascend by key, then by value within a key, then by time
\* within a key and value.
C18_BuilderOrder ==
  /\ \A i \in DOMAIN builders : BuilderOrdered(builders[i])
  /\ \A i \in DOMAIN out_inserted : BuilderOrdered(out_inserted[i].upds)

\* A sealed batch holds, for one key, an update of a smaller value at a
\* later time after which comes an update of a larger value at an earlier
\* time: the sort by value has reordered the buffer.
C18_Witness ==
  /\ pc = "idle"
  /\ \E i \in DOMAIN out_inserted :
       LET upds == out_inserted[i].upds
       IN \E n \in DOMAIN upds, m \in DOMAIN upds :
            /\ n < m /\ upds[n].key = upds[m].key
            /\ upds[n].val < upds[m].val
            /\ TimeLt(upds[m].time, upds[n].time)
\* The number of occurrences of the triple u in the stream s.
Occurrences(s, u) == Cardinality({i \in DOMAIN s : s[i] = u})

\* C19: the concatenation of the collection filtered by a predicate and of
\* the collection filtered by its negation holds exactly the triples of the
\* collection: each triple, as it is, as often as the collection holds it,
\* and in only one of the two filtered collections.
C19_FilterPartition ==
  coll_out.method = "concat_filter" =>
    \A u \in Triples :
      /\ Occurrences(coll_out.out, u) = Occurrences(coll_x, u)
      /\ Occurrences(coll_out.left, u) + Occurrences(coll_out.right, u)
           = Occurrences(coll_x, u)
      /\ Occurrences(coll_out.left, u) = 0 \/ Occurrences(coll_out.right, u) = 0

\* A collection of two triples was split by a predicate that holds of one
\* of them only.
C19_Witness ==
  /\ coll_out.method = "concat_filter"
  /\ Len(coll_x) = 2
  /\ Len(coll_out.left) = 1 /\ Len(coll_out.right) = 1
  /\ coll_out.out = <<coll_x[2], coll_x[1]>>

\* The sum of the diffs of the triples of data d at the times <= t.
Accumulated(s, d, t) ==
  SumDiffs(SelectSeq(s, LAMBDA u : u.val = d /\ LessEq(u.time, t)))

\* C20: a collection concatenated with its negation consolidates to the
\* empty collection and accumulates to nothing at every time; assert_eq
\* raises its assertion exactly when the two collections accumulate
\* differently at some time.
C20_NegateCancels ==
  /\ coll_out.method = "concat_negate" =>
       /\ coll_out.consolidated = <<>>
       /\ \A d \in Keys, t \in Times : Accumulated(coll_out.out, d, t) = 0
  /\ coll_out.method = "assert_eq" =>
       (coll_out.raised <=>
          \E d \in Keys, t \in Times :
            Accumulated(coll_x, d, t) # Accumulated(coll_y, d, t))

\* assert_eq was applied to two collections that hold different triples
\* and accumulate alike at every time, and raised nothing.
C20_Witness ==
  /\ coll_out.method = "assert_eq"
  /\ ~coll_out.raised
  /\ coll_x # <<>> /\ coll_x # coll_y
\* C21: a collection entered into a nested scope and left again holds the
\* triples of the collection and nothing else, each with its time
\* to_outer(to_inner(t)) = t, so a reduction over it reads the accumulated
\* input of the collection itself at every time.
C21_EnterLeaveIdentity ==
  coll_out.method = "enter_leave" =>
    /\ coll_out.out = coll_x
    /\ \A i \in DOMAIN coll_out.entered :
         /\ coll_out.entered[i].time = ToInner(coll_out.refinement, coll_x[i].time)
         /\ ToOuter(coll_out.refinement, coll_out.entered[i].time) = coll_x[i].time
    /\ \A d \in Keys, t \in Times :
         Accumulated(coll_out.out, d, t) = Accumulated(coll_x, d, t)

\* A collection of triples at two different times entered an iterative
\* scope, where its times are products, and left it.
C21_Witness ==
  /\ coll_out.method = "enter_leave"
  /\ coll_out.refinement = "product"
  /\ Len(coll_x) >= 2 /\ coll_x[1].time # coll_x[2].time
  /\ coll_out.entered[1].time = coll_x[1].time \o <<0>>
  /\ coll_out.out = coll_x
\* C22: a filtering cursor shows the same keys and values as the wrapped
\* cursor after every sequence of step, seek and rewind calls; its
\* map_times shows every (time, diff) of the current key and value where
\* the predicate holds and none where it does not; the length and the
\* description of a filtered batch are those of the wrapped batch.
UpdatesAt(k, v) ==
  {[time |-> u.time, diff |-> u.diff] : u \in {x \in wr_storage : x.key = k /\ x.val = v}}
SeenSet(seen) == {seen[i] : i \in DOMAIN seen}
C22_TraceFilter ==
  (op = "wrapper" /\ wrapper.kind = "filter") =>
    /\ wr_seen.call = "navigate" => wr_seen.wrapper = wr_seen.wrapped
    /\ wr_seen.call = "map_times" =>
         LET k == CursorKey(wr_storage, wr_cursor)
             v == CursorVal(wr_storage, wr_cursor)
         IN /\ Len(wr_seen.wrapper) = Cardinality(SeenSet(wr_seen.wrapper))
            /\ SeenSet(wr_seen.wrapper) =
                 IF <<k, v>> \in wrapper.logic THEN UpdatesAt(k, v) ELSE {}
    /\ wr_seen.call = "batch" =>
         /\ wr_seen.len = Cardinality(wr_seen.batch.updates)
         /\ wr_seen.description = wr_seen.batch.description
C22_Witness ==
  /\ op = "wrapper" /\ wrapper.kind = "filter"
  /\ wr_seen.call = "map_times"
  /\ wr_cursor # Rewound
  /\ wr_seen.wrapper = <<>>
  /\ wr_seen.wrapped # <<>>


\* C23: an entering cursor shows the keys, values and diffs of the wrapped
\* cursor and every time t as to_inner(t); the description of an entered
\* batch is the wrapped description with every element of lower, upper and
\* since mapped by to_inner; cursor_through, set_logical_compaction and
\* set_physical_compaction hand the wrapped trace the antichain of the
\* to_outer images of the frontier they are given.
C23_TraceEnter ==
  (op = "wrapper" /\ wrapper.kind = "enter") =>
    LET r == wrapper.refinement
    IN /\ wr_seen.call = "navigate" => wr_seen.wrapper = wr_seen.wrapped
       /\ wr_seen.call = "map_times" =>
            LET k == CursorKey(wr_storage, wr_cursor)
                v == CursorVal(wr_storage, wr_cursor)
            IN /\ Len(wr_seen.wrapper) = Cardinality(UpdatesAt(k, v))
               /\ SeenSet(wr_seen.wrapper) =
                    {[time |-> ToInner(r, u.time), diff |-> u.diff] : u \in UpdatesAt(k, v)}
       /\ wr_seen.call = "batch" =>
            /\ wr_seen.len = Cardinality(wr_seen.batch.updates)
            /\ \A f \in {"lower", "upper", "since"} :
                 wr_seen.description[f] =
                   {ToInner(r, t) : t \in wr_seen.batch.description[f]}
       /\ wr_seen.call \in FrontierCalls =>
            wr_seen.forwarded = MinimalTimes({ToOuter(r, t) : t \in wr_seen.frontier})
C23_Witness ==
  /\ op = "wrapper" /\ wrapper.kind = "enter" /\ wrapper.refinement = "product"
  /\ \/ /\ wr_seen.call = "map_times"
        /\ Len(wr_seen.wrapper) = 2
        /\ wr_cursor # Rewound
     \/ /\ wr_seen.call = "set_logical_compaction"
        /\ Cardinality(wr_seen.forwarded) < Cardinality(wr_seen.frontier)
     \/ /\ wr_seen.call = "batch"
        /\ Cardinality(wr_seen.description.upper) = 2

\* C24: when a round starts processing, the pairs of interesting whose
\* time is in advance of upper_limit are carried over and all the others
\* are exposed: a pair is exposed exactly when no element of upper_limit is
\* less than or equal to its time.
PairsOf(list) == {list[i] : i \in DOMAIN list}
Partitioned == pc = "idle" /\ pc' = "keys"
C24_Partition ==
  [][Partitioned =>
       /\ PairsOf(interesting') =
            {p \in PairsOf(interesting) : FrontierLessEq(upper_limit', p[2])}
       /\ PairsOf(exposed') =
            {p \in PairsOf(interesting) : ~FrontierLessEq(upper_limit', p[2])}]_vars
\* C24 as stated: a pair is exposed exactly when its time is strictly less
\* than some element of upper_limit.
C24_ExposedStrictlyBelow ==
  [][Partitioned =>
       PairsOf(exposed') =
         {p \in PairsOf(interesting) : FrontierLessThanTime(upper_limit', p[2])}]_vars
\* A round that has a pending time to carry over and nothing to process.
C24_Witness ==
  /\ pc = "keys"
  /\ exposed = <<>> /\ batch_upds = <<>>
  /\ upper_limit # lower_limit
  /\ interesting # <<>>

\* C25: at the end of every activation every pair of interesting has a
\* time in advance of upper_limit, and every time compute returns in
\* new_interesting is in advance of upper_limit.
InAdvance(t) == FrontierLessEq(upper_limit, t)
C25_InterestingInAdvance ==
  /\ pc = "idle" => \A i \in DOMAIN interesting : InAdvance(interesting[i][2])
  /\ \A i \in DOMAIN new_interesting : InAdvance(new_interesting[i])
C25_Witness ==
  /\ pc = "idle"
  /\ interesting # <<>>
  /\ upper_limit # {}
  /\ \E i \in DOMAIN interesting : interesting[i][2] \notin upper_limit

\* C26: every time compute adds to new_interesting is greater than or equal
\* to the time of one of the round's capabilities.
Covered(caps, t) == \E i \in DOMAIN caps : LessEq(caps[i], t)
C26_PushedCovered ==
  \A i \in DOMAIN new_interesting :
    Covered([j \in DOMAIN buffers |-> buffers[j].time], new_interesting[i])
C26_Witness ==
  /\ pc = "compute"
  /\ eval # NoEval
  /\ eval.pushed # <<>>
  /\ Len(buffers) >= 2

\* C27: when the capabilities are recomputed every time of the frontier of
\* interesting has a held capability less than or equal to it, and after
\* every activation every pair of interesting is covered by a held
\* capability.
C27_CapabilitiesCover ==
  /\ (pc = "keys" /\ ~MoreKeys) =>
       \A i \in DOMAIN InterestingFrontier : Covered(capabilities, InterestingFrontier[i])
  /\ pc = "idle" =>
       \A i \in DOMAIN interesting : Covered(capabilities, interesting[i][2])
C27_Witness ==
  /\ pc = "idle"
  /\ interesting # <<>>
  /\ \E i \in DOMAIN capabilities : capabilities[i] = interesting[1][2]
  /\ Len(out_done) >= 2

EmittedSoFar ==
  out_done \o Concat([i \in DOMAIN buffers |-> Keyed(key, buffers[i].upds)])
C29_UninterestingNoDelta ==
  (eval # NoEval /\ ~eval.interesting /\ ~InAdvance(eval.time)) =>
    Reduced(op, eval.key, Accumulate(AllInput, eval.key, eval.time))
      = Accumulate(EmittedSoFar, eval.key, eval.time)
C29_Witness ==
  /\ eval # NoEval
  /\ ~eval.interesting /\ ~InAdvance(eval.time)
  /\ Accumulate(AllInput, eval.key, eval.time) # <<>>
  /\ Accumulate(AllInput, eval.key, eval.time) # Accumulate(AllInput, eval.key, <<MaxT, MaxT>>)

\* C30: for the key compute has just finished, the join of two times that
\* each carry a new batch update or a flagged interesting time, or of one
\* such time and the time of a historical input or output update, was
\* evaluated in this round when it is not in advance of upper_limit and is
\* otherwise among the times recorded for a later round.
TimesOfKey(upds, k) == {upds[i].time : i \in {j \in DOMAIN upds : upds[j].key = k}}
NewTimes(k) ==
  TimesOfKey(batch_upds, k) \cup {exposed[i][2] : i \in {j \in DOMAIN exposed : exposed[j][1] = k}}
HistoricalTimes(k) ==
  TimesOfKey(Through(src_done, src_batches, lower_limit), k)
    \cup TimesOfKey(Through(out_done, <<>>, lower_limit), k)
KeyDone == pc = "compute" /\ Candidates = {} /\ eval # NoEval
C30_JoinClosure ==
  KeyDone =>
    \A t1 \in NewTimes(key), t2 \in NewTimes(key) \cup HistoricalTimes(key) :
      IF InAdvance(Join(t1, t2))
      THEN \E i \in DOMAIN new_interesting : new_interesting[i] = Join(t1, t2)
      ELSE Join(t1, t2) \in eval.done
C30_Witness ==
  /\ KeyDone
  /\ \E t1 \in NewTimes(key), t2 \in HistoricalTimes(key) \ NewTimes(key) :
       Join(t1, t2) \notin {t1, t2} /\ InAdvance(Join(t1, t2))

\* The raw updates of the histories compute replays: the input trace and
\* the received batches, and the output emitted by earlier rounds and, for
\* the key under computation, at the other times of this call.
RawInput == Through(src_done, src_batches, lower_limit) \o batch_upds
RawOutputBefore(t) ==
  out_done \o Keyed(key, SelectSeq(Buffered, LAMBDA u : u.time # t))

\* C31: at every time at which compute evaluates the logic, the input
\* buffer assembled from the histories whose times were joined with the
\* meet is the consolidated accumulation of the raw input updates at the
\* times less than or equal to that time, and the output buffer is the
\* accumulation of the raw output updates emitted before.
C31_MeetCompaction ==
  (pc \in {"compute", "aborted"} /\ eval.step = "iter" /\ eval.evaluated) =>
    /\ eval.input = Accumulate(RawInput, eval.key, eval.time)
    /\ eval.output = Accumulate(RawOutputBefore(eval.time), eval.key, eval.time)
\* The logic was evaluated over an input that holds a historical update
\* whose time the meet has moved, and over a previous output.
C31_Witness ==
  /\ pc = "compute" /\ eval.step = "iter" /\ eval.evaluated
  /\ eval.meet # None
  /\ eval.output # <<>>
  /\ \E i \in DOMAIN src_done :
       /\ src_done[i].key = eval.key
       /\ LessEq(src_done[i].time, eval.time)
       /\ Join(src_done[i].time, eval.meet) # src_done[i].time

\* C32: every activation that starts a round ends (or aborts): each
\* iteration of compute's loop leaves only times strictly greater than the
\* time it visited in the five sources of times, the loop ends with the
\* five sources empty, and the key merge ends.
InRound == pc \in {"keys", "compute"}
C32_ActivationTerminates ==
  /\ [][(pc' = "compute" /\ eval' # NoEval /\ eval' # eval) =>
          \A t \in Candidates' : TimeLt(eval'.time, t)]_vars
  /\ [][(pc = "compute" /\ pc' = "keys") =>
          /\ batch_replay.hist = <<>> /\ TimesSlice = <<>>
          /\ input_replay.hist = <<>> /\ output_replay.hist = <<>>
          /\ synth_times = <<>>]_vars
  /\ InRound ~> (pc \in {"idle", "aborted"})
\* compute has finished a key after three evaluations, the last at a
\* synthetic time: a join that carries no update.
C32_Witness ==
  /\ KeyDone
  /\ Cardinality(eval.done) >= 3
  /\ eval.time \notin TimesOfKey(RawInput, key) \cup TimesOfKey(out_done, key)

\* The keys a round has to process and the exposed times of each.
RoundKeys ==
  {batch_upds[i].key : i \in DOMAIN batch_upds} \cup {exposed[i][1] : i \in DOMAIN exposed}
ExposedTimesOf(k) == {exposed[i][2] : i \in {j \in DOMAIN exposed : exposed[j][1] = k}}
KeyStarts == pc = "keys" /\ pc' = "compute"
MergeEnds == pc = "keys" /\ pc' \in {"idle", "aborted"}

\* C33: the key merge of a round takes the keys in strictly ascending
\* order; each key it takes is a key of the received batches or of the
\* exposed pairs and none of those keys is passed over, so that each is
\* processed exactly once; compute is given all and only the exposed times
\* of the key, each once and in order.
C33_KeyMerge ==
  /\ [][KeyStarts =>
          /\ key' > key
          /\ key' \in RoundKeys
          /\ ~ \E k \in RoundKeys : key < k /\ k < key'
          /\ {times'[i] : i \in DOMAIN times'} = ExposedTimesOf(key')
          /\ \A i \in DOMAIN times', j \in DOMAIN times' :
               i < j => TimeLt(times'[i], times'[j])]_vars
  /\ [][MergeEnds => \A k \in RoundKeys : k <= key]_vars
\* The merge has taken a key of the batches after a key that has two
\* exposed times and no update in the batches.
C33_Witness ==
  /\ pc = "compute"
  /\ key = 2
  /\ Cardinality(ExposedTimesOf(1)) = 2
  /\ \A i \in DOMAIN batch_upds : batch_upds[i].key = 2
  /\ batch_upds # <<>>

\* The received batches' updates, those of key k, and the counts the trace
\* can show for k before them: the sum of the diffs it holds for k, and
\* nothing when it holds none (an accumulation that cancels may or may not
\* still be held).
Received == Concat([i \in DOMAIN inbox |-> inbox[i].batch.upds])
ReceivedOf(k) == SelectSeq(Received, LAMBDA u : u.key = k)
HeldOf(k) == SelectSeq(Through(src_done, src_batches, upper_limit), LAMBDA u : u.key = k)
StartCounts(k) ==
  IF HeldOf(k) = <<>> THEN {None}
  ELSE IF SumDiffs(HeldOf(k)) = 0 THEN {None, <<0>>}
  ELSE {<<SumDiffs(HeldOf(k))>>}
\* The count before the j-th received update of k, from the start c0.
CountBefore(k, c0, j) ==
  IF c0 = None /\ j = 1 THEN None
  ELSE <<(IF c0 = None THEN 0 ELSE c0[1]) + SumDiffs(SubSeq(ReceivedOf(k), 1, j - 1))>>
\* What thresh returns at the j-th received update of k.
ThreshAt(k, c0, j) ==
  LET count == CountBefore(k, c0, j)
      diff == ReceivedOf(k)[j].diff
  IN IF count = None THEN ThresholdTotal(op, k, diff, None)
     ELSE ThresholdTotal(op, k, count[1] + diff, count)
Receives == pc = "idle" /\ inbox # <<>> /\ inbox' = <<>>

\* C34: threshold_semigroup, for each key of the received batches, walks
\* the key's received updates in time order from the count the trace holds
\* for the key; at each it gives one update (key, time, result) when thresh
\* of the new and the old count returns a non-zero result and none
\* otherwise, and for the other keys it gives nothing.
C34_ThresholdSemigroup ==
  [][Receives =>
       LET given == out_stream'[1].upds
       IN /\ \A i \in DOMAIN given, j \in DOMAIN given :
               i < j => \/ given[i].key < given[j].key
                        \/ given[i].key = given[j].key /\ TimeLt(given[i].time, given[j].time)
          /\ \A k \in Keys :
               /\ \A i \in DOMAIN ReceivedOf(k), j \in DOMAIN ReceivedOf(k) :
                    i < j => TimeLt(ReceivedOf(k)[i].time, ReceivedOf(k)[j].time)
               /\ \E c0 \in StartCounts(k) :
                    /\ \A j \in DOMAIN ReceivedOf(k) :
                         LET result == ThreshAt(k, c0, j)
                             at == SelectSeq(given, LAMBDA u :
                                     u.key = k /\ u.time = ReceivedOf(k)[j].time)
                         IN IF result # None /\ result[1] # 0
                            THEN at = <<[key |-> k, val |-> Unit,
                                         time |-> ReceivedOf(k)[j].time, diff |-> result[1]]>>
                            ELSE at = <<>>
                    /\ \A i \in DOMAIN given :
                         given[i].key = k =>
                           \E j \in DOMAIN ReceivedOf(k) : ReceivedOf(k)[j].time = given[i].time]_vars
\* An activation has walked the updates of a key from a count held in the
\* trace: it has given a retraction, after an earlier activation gave the
\* key's first update.
C34_Witness ==
  /\ out_stream # <<>>
  /\ Len(out_stream[1].upds) = 1
  /\ out_stream[1].upds[1].diff < 0
  /\ Len(out_done) >= 2
  /\ \E i \in DOMAIN src_done :
       /\ src_done[i].key = out_stream[1].upds[1].key
       /\ TimeLt(src_done[i].time, out_stream[1].upds[1].time)
       /\ FrontierLessEq(lower_limit, out_stream[1].upds[1].time)
       /\ ~FrontierLessEq(lower_limit, src_done[i].time)

\* The times handed to compute for the key under computation.
SuppliedTimes == {times[i] : i \in DOMAIN times}
EvaluatedAt(k, t) ==
  /\ pc = "compute" /\ eval.step = "iter"
  /\ eval.key = k /\ eval.time = t /\ eval.evaluated

\* C35: a pair of interesting stays in interesting while its time is in
\* advance of upper_limit; the first activation after which it is not takes
\* the processing branch and exposes the pair, the time is handed to
\* compute for the key, and compute evaluates at the time, applying the
\* logic exactly when the input or the previous output there is non-empty.
C35_DeferredEvaluated ==
  /\ [][\A i \in DOMAIN interesting :
          IF FrontierLessEq(upper_limit', interesting[i][2])
          THEN interesting[i] \in PairsOf(interesting')
          ELSE /\ pc = "idle" /\ pc' = "keys"
               /\ interesting[i] \in PairsOf(exposed')]_vars
  /\ [][KeyStarts => ExposedTimesOf(key') \subseteq {times'[i] : i \in DOMAIN times'}]_vars
  /\ [](pc = "compute" /\ eval.step = "iter" /\ eval.time \in SuppliedTimes =>
          /\ eval.interesting /\ eval.evaluated
          /\ eval.called <=> (eval.input # <<>> \/ eval.output # <<>>))
  /\ \A k \in Keys, t \in Times :
       (pc = "keys" /\ <<k, t>> \in PairsOf(SubSeq(exposed, exposed_position, Len(exposed))))
         ~> EvaluatedAt(k, t)
\* compute has evaluated at a time that was deferred by an earlier round,
\* and has applied the logic there.
C35_Witness ==
  /\ pc = "compute" /\ eval.step = "iter"
  /\ <<eval.key, eval.time>> \in PairsOf(exposed)
  /\ eval.evaluated /\ eval.called
  /\ out_done # <<>>

\* A step of the idle operator after which the inbox is drained and
\* upper_limit, where it was, is also lower_limit.
NoAdvance ==
  /\ pc = "idle" /\ inbox' = <<>>
  /\ upper_limit' = upper_limit /\ lower_limit' = upper_limit

\* C36: an activation in which upper_limit does not advance leaves
\* interesting, the output trace, the bound the writer is sealed to and the
\* compaction frontiers of both traces as they were, hands no batch to the
\* writer and sends none.
C36_NoAdvanceNoEffect ==
  [][NoAdvance =>
       /\ interesting' = interesting
       /\ out_done' = out_done /\ out_inserted' = out_inserted
       /\ out_upper' = out_upper
       /\ out_stream' = out_stream /\ stream_upper' = stream_upper
       /\ src_logical' = src_logical /\ src_physical' = src_physical
       /\ out_logical' = out_logical /\ out_physical' = out_physical
       /\ pc' = "idle"]_vars
\* The operator was activated again after a round that sent a batch and
\* left a pending pair and a capability, without progress of its input.
C36_Witness ==
  /\ pc = "idle"
  /\ lower_limit = upper_limit
  /\ interesting # <<>> /\ capabilities # <<>>
  /\ out_stream # <<>> /\ out_inserted # <<>>

\* The times of the capabilities of the received messages.
ReceivedCapabilities == {inbox[i].cap : i \in DOMAIN inbox}
Ingests == pc = "idle" /\ inbox # <<>> /\ inbox' = <<>>

\* C37: the times of the held capabilities are pairwise incomparable at
\* every moment, after ingestion and after every round; ingestion leaves the
\* minimal times among the held and the received capabilities, each held
\* once: a held capability strictly greater than a received one is
\* dropped, and a received one is added only when none held is <= it.
C37_CapabilityAntichain ==
  /\ [](\A i \in DOMAIN capabilities, j \in DOMAIN capabilities :
           i # j => ~LessEq(capabilities[i], capabilities[j]))
  /\ [][Ingests =>
          /\ {capabilities'[i] : i \in DOMAIN capabilities'}
               = MinimalTimes(CapabilityTimes \cup ReceivedCapabilities)
          /\ Len(capabilities') = Cardinality(MinimalTimes(CapabilityTimes
                                                            \cup ReceivedCapabilities))]_vars
\* Ingestion has dropped the capability held for a pending time in favour
\* of a received capability strictly less than it.
C37_Witness ==
  /\ pc = "keys"
  /\ batch_upds # <<>>
  /\ \E i \in DOMAIN exposed :
       /\ \E j \in DOMAIN capabilities : LessThan(capabilities[j], exposed[i][2])
       /\ \A j \in DOMAIN capabilities : capabilities[j] # exposed[i][2]

\* The batches the shipping loop sends under the capability of builder i.
ShippedFor(i) == {j \in DOMAIN out_stream' : out_stream'[j].cap = capabilities[i]}

\* C38: when the round's builders are sealed and shipped, a builder that
\* is discarded for its empty interval holds no update, and every other
\* builder is shipped as one batch that holds its updates, under its
\* capability: every update compute produced in the round is in exactly one
\* shipped batch.
C38_NoUpdateLost ==
  [][MergeEnds =>
       /\ \A i \in DOMAIN builders :
            IF ShippedFor(i) = {} THEN builders[i] = <<>>
            ELSE /\ Cardinality(ShippedFor(i)) = 1
                 /\ \A j \in ShippedFor(i) : out_stream'[j].batch.upds = builders[i]
       /\ \A j \in DOMAIN out_stream' :
            \E i \in DOMAIN builders : capabilities[i] = out_stream'[j].cap]_vars
\* A round is about to discard its first builder, whose interval is empty,
\* and to ship its second, which holds updates.
C38_Witness ==
  /\ pc = "keys" /\ ~MoreKeys
  /\ Len(builders) = 2
  /\ BatchUpper(1) = lower_limit
  /\ builders[2] # <<>>

\* ------------------------------------------------------------------------
\* The output and the grouping of the input into batches and activations.
\* ------------------------------------------------------------------------
\* The output owed at (k, t) for a list of input updates taken as one sorted
\* batch, whatever batches and activations they arrived in.
OneDelivery(o, upds, k, t) == Reduced(o, k, Accumulate(SortSeq(upds, UpdLt), k, t))

\* The frontier the output is settled up to: upper_limit between
\* activations, and during a round the upper_limit the round began from.
SettledFrontier == IF pc = "idle" THEN upper_limit ELSE lower_limit

\* The batches of the input trace the round under way has drained.
DrainedTogether ==
  {i \in DOMAIN src_batches : AntichainLE(lower_limit, src_batches[i].lower)}

\* C39: every step that leaves the operator between activations (the end of
\* a round that drained any number of batches, an activation that only
\* sealed, an activation without progress) leaves an output trace that
\* accumulates, at every time not in advance of upper_limit, to the
\* reduction of all the input updates taken as one batch; and no step
\* changes what the output trace accumulates to at a time not in advance of
\* the frontier already settled. The accumulated output at those times is
\* therefore the same however the updates were grouped into batches and
\* activations.
C39_BatchingIndependence ==
  /\ [][pc' = "idle" =>
          \A k \in Keys, t \in Times :
            ~FrontierLessEq(upper_limit', t) =>
              Accumulate(out_done', k, t)
                = OneDelivery(op, Through(src_done', src_batches', {}), k, t)]_vars
  /\ [][\A k \in Keys, t \in Times :
          ~FrontierLessEq(SettledFrontier, t) =>
            Accumulate(out_done', k, t) = Accumulate(out_done, k, t)]_vars

\* A round is about to end that drained two batches holding updates and an
\* empty batch together, after an earlier round that drained one batch
\* alone, and has produced output at two times.
C39_Witness ==
  /\ pc = "keys" /\ ~MoreKeys
  /\ out_done # <<>>
  /\ \E i \in DrainedTogether, j \in DrainedTogether, e \in DrainedTogether :
       /\ i < j
       /\ src_batches[i].upds # <<>> /\ src_batches[j].upds # <<>>
       /\ src_batches[e].upds = <<>>
  /\ \E x \in DOMAIN RoundOutput, y \in DOMAIN RoundOutput :
       RoundOutput[x].time # RoundOutput[y].time

====
